---- MODULE Spec2Model ----
(***************************************************************************)
(* Model of the AutoRAG chat worker (src/src/index.ts, src/src/types.ts):  *)
(* request validation, the search -> prompt -> generate pipeline, and the  *)
(* single fallback generation call.                                        *)
(*                                                                         *)
(* JavaScript values are records with a "typeof" field (the result of      *)
(* typeof, with "null" and "array" told apart).  A JavaScript string is a  *)
(* sequence of chunks [tag, len]: tag names the text, len is its number of *)
(* characters; concatenation is \o and the empty string is << >>.          *)
(***************************************************************************)
EXTENDS Integers, Sequences, FiniteSets, TLC

\* ------------------------------------------------------------------ bounds
MaxMsgs == 2
MaxDocs == 2

\* ------------------------------------------------------- JavaScript values
Lit(tag, len) == << [tag |-> tag, len |-> len] >>

RECURSIVE StrLen(_)
StrLen(s) == IF s = << >> THEN 0 ELSE Head(s).len + StrLen(Tail(s))

JUndef == [typeof |-> "undefined"]
JNull == [typeof |-> "null"]
JNum(n) == [typeof |-> "number", val |-> n]
JStr(s) == [typeof |-> "string", val |-> s]
JArr(xs) == [typeof |-> "array", elems |-> xs]

\* JavaScript truthiness of the values the model uses
Truthy(v) ==
    CASE v.typeof = "undefined" -> FALSE
      [] v.typeof = "null" -> FALSE
      [] v.typeof = "number" -> v.val # 0
      [] v.typeof = "string" -> v.val # << >>
      [] OTHER -> TRUE

SeqsUpTo(S, n) == UNION { [1..k -> S] : k \in 0..n }

\* ------------------------------------------------------ program constants
SYSTEM_PROMPT_MAX == 10000
CONTENT_MAX == 50000

ROLE_SYSTEM == JStr(Lit("system", 6))
ROLE_USER == JStr(Lit("user", 4))
ROLE_ASSISTANT == JStr(Lit("assistant", 9))
ValidRoles == {ROLE_SYSTEM, ROLE_USER, ROLE_ASSISTANT}

DEFAULT_SYSTEM_PROMPT == Lit("DEFAULT_SYSTEM_PROMPT", 338)
DEFAULT_INDEX == "damagescan-rag-1"
DEFAULT_RAG_SETTINGS == [maxResults |-> 5, scoreThreshold |-> 10, rewriteQuery |-> TRUE]
LLM_FAILURE == Lit("AI model temporarily unavailable. Please try again.", 51)

\* ----------------------------------------------------------- request bodies
\* Message contents: a short text, one of exactly CONTENT_MAX characters and
\* one of CONTENT_MAX + 1.
Contents ==
    { JStr(Lit("a", 1)), JStr(Lit("B", CONTENT_MAX)), JStr(Lit("C", CONTENT_MAX + 1)) }

Message(role, content) == [typeof |-> "object", role |-> role, content |-> content]

\* elements of the right shape: a user message of each content, and a short
\* system and assistant message
ValidElems ==
    { Message(ROLE_USER, c) : c \in Contents }
      \cup { Message(ROLE_SYSTEM, JStr(Lit("a", 1))), Message(ROLE_ASSISTANT, JStr(Lit("a", 1))) }

InvalidElems ==
    { JNull,
      [typeof |-> "object", role |-> JStr(Lit("bot", 3)), content |-> JStr(Lit("a", 1))],
      [typeof |-> "object", role |-> ROLE_USER, content |-> JNum(7)] }

Elems == ValidElems \cup InvalidElems

SystemPrompts ==
    { JUndef, JStr(<< >>), JStr(Lit("P", SYSTEM_PROMPT_MAX)),
      JStr(Lit("Q", SYSTEM_PROMPT_MAX + 1)) }

ClientRagSettings ==
    { JUndef,
      [typeof |-> "object",
       fields |-> [index |-> "client-index", maxResults |-> 3, scoreThreshold |-> 50,
                   rewriteQuery |-> FALSE]] }

ObjectBodies ==
    { [typeof |-> "object", messages |-> m, systemPrompt |-> sp, ragSettings |-> rs] :
        m \in {JUndef, JStr(Lit("a", 1))} \cup { JArr(xs) : xs \in SeqsUpTo(Elems, MaxMsgs) },
        sp \in SystemPrompts, rs \in ClientRagSettings }

\* what request.json() can yield; BadJSON stands for a body that does not parse
BadJSON == [typeof |-> "unparseable"]
Bodies == ObjectBodies \cup {JNull, JNum(7)}

\* ------------------------------------------------------------- validation
isChatMessage(msg) ==
    /\ Truthy(msg)
    /\ msg.role.typeof = "string"
    /\ msg.role \in ValidRoles
    /\ msg.content.typeof = "string"

isChatRequest(obj) ==
    /\ Truthy(obj)
    /\ obj.typeof = "object"
    /\ obj.messages.typeof = "array"
    /\ \A i \in 1..Len(obj.messages.elems) : isChatMessage(obj.messages.elems[i])

\* v.length > max, for a string v
TooLong(v, max) == v.typeof = "string" /\ StrLen(v.val) > max

E_STRUCTURE == Lit("Invalid request structure", 25)
E_NO_MESSAGE == Lit("At least one message is required", 32)
E_NO_USER == Lit("At least one user message is required", 37)
E_PROMPT_LONG == Lit("System prompt too long (max 10000 characters)", 45)
E_CONTENT_LONG == Lit("Message content too long (max 50000 characters)", 47)

\* the loop over body.messages: one error per over-long content
contentErrors(msgs) ==
    [i \in 1..Len(SelectSeq(msgs, LAMBDA m : TooLong(m.content, CONTENT_MAX))) |-> E_CONTENT_LONG]

\* validateChatRequest without the loop over the message contents
validateChatRequest_NoContentCheck(body) ==
    IF ~isChatRequest(body)
    THEN [valid |-> FALSE, errors |-> << E_STRUCTURE >>, sanitizedInput |-> JUndef]
    ELSE LET msgs == body.messages.elems
             e1 == IF Len(msgs) = 0 THEN << E_NO_MESSAGE >> ELSE << >>
             e2 == IF ~\E i \in 1..Len(msgs) : msgs[i].role = ROLE_USER
                   THEN << E_NO_USER >> ELSE << >>
             e3 == IF Truthy(body.systemPrompt) /\ TooLong(body.systemPrompt, SYSTEM_PROMPT_MAX)
                   THEN << E_PROMPT_LONG >> ELSE << >>
             errors == e1 \o e2 \o e3
         IN  [valid |-> errors = << >>,
              errors |-> errors,
              sanitizedInput |-> IF errors = << >> THEN body ELSE JUndef]

\* validateChatRequest with systemPrompt.length >= 10000 in place of > 10000
validateChatRequest_PromptOffByOne(body) ==
    IF ~isChatRequest(body)
    THEN [valid |-> FALSE, errors |-> << E_STRUCTURE >>, sanitizedInput |-> JUndef]
    ELSE LET msgs == body.messages.elems
             e1 == IF Len(msgs) = 0 THEN << E_NO_MESSAGE >> ELSE << >>
             e2 == IF ~\E i \in 1..Len(msgs) : msgs[i].role = ROLE_USER
                   THEN << E_NO_USER >> ELSE << >>
             e3 == IF Truthy(body.systemPrompt)
                        /\ TooLong(body.systemPrompt, SYSTEM_PROMPT_MAX - 1)
                   THEN << E_PROMPT_LONG >> ELSE << >>
             errors == e1 \o e2 \o e3 \o contentErrors(msgs)
         IN  [valid |-> errors = << >>,
              errors |-> errors,
              sanitizedInput |-> IF errors = << >> THEN body ELSE JUndef]

validateChatRequest(body) ==
    IF ~isChatRequest(body)
    THEN [valid |-> FALSE, errors |-> << E_STRUCTURE >>, sanitizedInput |-> JUndef]
    ELSE LET msgs == body.messages.elems
             e1 == IF Len(msgs) = 0 THEN << E_NO_MESSAGE >> ELSE << >>
             e2 == IF ~\E i \in 1..Len(msgs) : msgs[i].role = ROLE_USER
                   THEN << E_NO_USER >> ELSE << >>
             e3 == IF Truthy(body.systemPrompt) /\ TooLong(body.systemPrompt, SYSTEM_PROMPT_MAX)
                   THEN << E_PROMPT_LONG >> ELSE << >>
             errors == e1 \o e2 \o e3 \o contentErrors(msgs)
         IN  [valid |-> errors = << >>,
              errors |-> errors,
              sanitizedInput |-> IF errors = << >> THEN body ELSE JUndef]

\* --------------------------------------------------- numbers and strings
\* Scores are integers in hundredths (80 is 0.8); a quotient is kept exact as
\* a pair [num, den] of hundredths.
DigitTag == << "0", "1", "2", "3", "4", "5", "6", "7", "8", "9" >>

RECURSIVE IntToStr(_)
IntToStr(n) ==
    IF n < 10 THEN Lit(DigitTag[n + 1], 1)
    ELSE IntToStr(n \div 10) \o Lit(DigitTag[(n % 10) + 1], 1)

RECURSIVE Pow10(_)
Pow10(d) == IF d = 0 THEN 1 ELSE 10 * Pow10(d - 1)

RECURSIVE PadDigits(_, _)
PadDigits(n, width) ==
    IF width = 0 THEN << >>
    ELSE PadDigits(n \div 10, width - 1) \o Lit(DigitTag[(n % 10) + 1], 1)

\* Number.prototype.toFixed(d) of the number num / (100 * den)
toFixed(num, den, d) ==
    LET scaled == (2 * num * Pow10(d) + 100 * den) \div (2 * 100 * den)
    IN  IntToStr(scaled \div Pow10(d)) \o Lit(".", 1) \o PadDigits(scaled % Pow10(d), d)

NL == Lit("\\n", 1)
Whitespace == { "\\n", " " }

RECURSIVE join(_, _)
join(parts, sep) ==
    IF parts = << >> THEN << >>
    ELSE IF Len(parts) = 1 THEN parts[1]
    ELSE parts[1] \o sep \o join(Tail(parts), sep)

RECURSIVE trimStart(_)
trimStart(s) ==
    IF s # << >> /\ Head(s).tag \in Whitespace THEN trimStart(Tail(s)) ELSE s

RECURSIVE trimEnd(_)
trimEnd(s) ==
    IF s # << >> /\ s[Len(s)].tag \in Whitespace THEN trimEnd(SubSeq(s, 1, Len(s) - 1)) ELSE s

trim(s) == trimEnd(trimStart(s))

\* s.substring(0, n) + (s.length > n ? "..." : "")
truncate(s, n) ==
    IF StrLen(s) > n THEN Lit("substring(0, n)", n) \o Lit("...", 3) ELSE s

\* -------------------------------------------------------------- retrieval
TEXT == JStr(Lit("text", 4))

Doc(file, score, items) ==
    [typeof |-> "object", file_id |-> JStr(Lit("id", 2)), filename |-> JStr(Lit(file, 2)),
     score |-> JNum(score), content |-> JArr(items)]

TextItem(s) == [typeof |-> "object", type |-> TEXT, text |-> JStr(s)]

\* the documents the external search may return: one that fails the shape
\* check, two with text and one whose text is only white space
Docs ==
    { JNull,
      Doc("f1", 80, << TextItem(Lit("T1", 10)) >>),
      Doc("f2", 40, << TextItem(Lit("T2", 20)), TextItem(Lit("T3", 5)) >>),
      Doc("f3", 40, << TextItem(Lit(" ", 1)) >>) }

\* outcomes of env.AI.autorag(index).search(options)
SearchOutcomes ==
    { [kind |-> "throw"],
      [kind |-> "value", value |-> JNull],
      [kind |-> "value", value |-> [typeof |-> "object", data |-> JUndef]],
      [kind |-> "value", value |-> [typeof |-> "object", data |-> JStr(Lit("a", 1))]] }
    \cup { [kind |-> "value", value |-> [typeof |-> "object", data |-> JArr(ds)]] :
             ds \in SeqsUpTo(Docs, MaxDocs) }

isSearchResult(obj) ==
    /\ Truthy(obj)
    /\ obj.typeof = "object"
    /\ obj.file_id.typeof = "string"
    /\ obj.filename.typeof = "string"
    /\ obj.score.typeof = "number"
    /\ obj.content.typeof = "array"
    /\ \A i \in 1..Len(obj.content.elems) :
          LET content == obj.content.elems[i]
          IN  Truthy(content) /\ content.type.typeof = "string" /\ content.text.typeof = "string"

\* createEmptyRAGContext that reports a context
createEmptyRAGContext_HasContext ==
    [contextText |-> << >>, documentCount |-> 0, averageScore |-> [num |-> 0, den |-> 1],
     sources |-> << >>, hasContext |-> TRUE]

createEmptyRAGContext ==
    [contextText |-> << >>, documentCount |-> 0, averageScore |-> [num |-> 0, den |-> 1],
     sources |-> << >>, hasContext |-> FALSE]

\* doc.content.filter(type === "text").map(text).join('\n').trim()
textContentOf(doc) ==
    LET items == SelectSeq(doc.content.elems, LAMBDA c : c.type = TEXT)
    IN  trim(join([i \in 1..Len(items) |-> items[i].text.val], NL))

contextEntryOf(doc, index) ==
    Lit("[Document ", 10) \o IntToStr(index + 1) \o Lit(": ", 2) \o doc.filename.val
      \o Lit(" (Relevance: ", 13) \o toFixed(doc.score.val, 1, 2) \o Lit(")]", 2)
      \o NL \o textContentOf(doc)

\* the documents.forEach loop: acc is [contextParts, sources, totalScore];
\* i is the 1-based position, so the callback's index is i - 1
RECURSIVE forEachDoc(_, _, _)
forEachDoc(documents, i, acc) ==
    IF i > Len(documents) THEN acc
    ELSE LET doc == documents[i]
             next ==
                IF ~isSearchResult(doc) THEN acc
                ELSE IF textContentOf(doc) = << >> THEN acc
                ELSE [contextParts |-> Append(acc.contextParts, contextEntryOf(doc, i - 1)),
                      sources |-> Append(acc.sources,
                                    [filename |-> doc.filename.val, score |-> doc.score.val,
                                     relevantText |-> truncate(textContentOf(doc), 200)]),
                      totalScore |-> acc.totalScore + doc.score.val]
         IN  forEachDoc(documents, i + 1, next)

\* buildRAGContext reporting the number of sources as documentCount
buildRAGContext_CountsSources(searchResult) ==
    LET documents == searchResult.data.elems
    IN  IF Len(documents) = 0 THEN createEmptyRAGContext
        ELSE LET r == forEachDoc(documents, 1,
                        [contextParts |-> << >>, sources |-> << >>, totalScore |-> 0])
                 contextText == join(r.contextParts, NL \o NL)
             IN  [contextText |-> contextText,
                  documentCount |-> Len(r.sources),
                  averageScore |-> [num |-> r.totalScore, den |-> Len(documents)],
                  sources |-> r.sources,
                  hasContext |-> StrLen(contextText) > 0]

\* buildRAGContext deriving hasContext from the document count
buildRAGContext_ContextFromCount(searchResult) ==
    LET documents == searchResult.data.elems
    IN  IF Len(documents) = 0 THEN createEmptyRAGContext
        ELSE LET r == forEachDoc(documents, 1,
                        [contextParts |-> << >>, sources |-> << >>, totalScore |-> 0])
                 contextText == join(r.contextParts, NL \o NL)
             IN  [contextText |-> contextText,
                  documentCount |-> Len(documents),
                  averageScore |-> [num |-> r.totalScore, den |-> Len(documents)],
                  sources |-> r.sources,
                  hasContext |-> Len(documents) > 0]

buildRAGContext(searchResult) ==
    LET documents == searchResult.data.elems
    IN  IF Len(documents) = 0 THEN createEmptyRAGContext
        ELSE LET r == forEachDoc(documents, 1,
                        [contextParts |-> << >>, sources |-> << >>, totalScore |-> 0])
                 contextText == join(r.contextParts, NL \o NL)
             IN  [contextText |-> contextText,
                  documentCount |-> Len(documents),
                  averageScore |-> [num |-> r.totalScore, den |-> Len(documents)],
                  sources |-> r.sources,
                  hasContext |-> StrLen(contextText) > 0]

\* searchAutoRAG whose catch block rethrows
searchAutoRAG_Rethrows(outcome) ==
    IF outcome.kind = "throw"
    THEN [raised |-> TRUE, value |-> createEmptyRAGContext]
    ELSE LET searchResult == outcome.value
         IN  IF ~Truthy(searchResult) \/ ~Truthy(searchResult.data)
                  \/ searchResult.data.typeof # "array"
             THEN [raised |-> FALSE, value |-> createEmptyRAGContext]
             ELSE [raised |-> FALSE, value |-> buildRAGContext(searchResult)]

\* searchAutoRAG that throws on an invalid response structure
searchAutoRAG_RejectsStructure(outcome) ==
    IF outcome.kind = "throw"
    THEN [raised |-> FALSE, value |-> createEmptyRAGContext]
    ELSE LET searchResult == outcome.value
         IN  IF ~Truthy(searchResult) \/ ~Truthy(searchResult.data)
                  \/ searchResult.data.typeof # "array"
             THEN [raised |-> TRUE, value |-> createEmptyRAGContext]
             ELSE [raised |-> FALSE, value |-> buildRAGContext(searchResult)]

\* raised is TRUE when the function lets an exception escape to its caller
searchAutoRAG(outcome) ==
    IF outcome.kind = "throw"
    THEN [raised |-> FALSE, value |-> createEmptyRAGContext]
    ELSE LET searchResult == outcome.value
         IN  IF ~Truthy(searchResult) \/ ~Truthy(searchResult.data)
                  \/ searchResult.data.typeof # "array"
             THEN [raised |-> FALSE, value |-> createEmptyRAGContext]
             ELSE [raised |-> FALSE, value |-> buildRAGContext(searchResult)]

\* ------------------------------------------------------- prompt augmenter
\* estimateTokens rounding down
estimateTokens_Floor(text) == StrLen(text) \div 4

estimateTokens(text) == (StrLen(text) + 3) \div 4

contextSummaryOf(ragContext) ==
    Lit("Found ", 6) \o IntToStr(ragContext.documentCount)
      \o Lit(" relevant documents (avg. relevance: ", 37)
      \o toFixed(ragContext.averageScore.num, ragContext.averageScore.den, 2) \o Lit(")", 1)

KB_HEADER == Lit("\\n\\nKNOWLEDGE BASE CONTEXT:\\nYou have access to relevant information from the knowledge base. ", 91)
INSTRUCTIONS ==
    Lit("\\n\\nINSTRUCTIONS:", 15)
      \o Lit("\\n- When the knowledge base context is relevant", 98)
      \o Lit("\\n- Reference specific documents", 115)
      \o Lit("\\n- If the knowledge base doesn't contain relevant information", 110)
      \o Lit("\\n- Be clear about when you're using knowledge base information", 84)
      \o Lit("\\n- Provide accurate and helpful responses", 81)

\* buildEnhancedSystemPrompt that augments the default prompt instead of the
\* base prompt it was given
buildEnhancedSystemPrompt_DropsBasePrompt(basePrompt, ragContext) ==
    IF ~ragContext.hasContext
    THEN [prompt |-> basePrompt,
          hasRAGContext |-> FALSE,
          contextSummary |-> Lit("No relevant documents found in knowledge base", 45),
          tokenEstimate |-> estimateTokens(basePrompt)]
    ELSE LET contextSummary == contextSummaryOf(ragContext)
             enhancedPrompt ==
                DEFAULT_SYSTEM_PROMPT \o KB_HEADER \o contextSummary \o Lit(":\\n\\n", 3)
                  \o ragContext.contextText \o INSTRUCTIONS
         IN  [prompt |-> enhancedPrompt,
              hasRAGContext |-> TRUE,
              contextSummary |-> contextSummary,
              tokenEstimate |-> estimateTokens(enhancedPrompt)]

\* buildEnhancedSystemPrompt that appends the instructions without a context
buildEnhancedSystemPrompt_InstructionsAlways(basePrompt, ragContext) ==
    IF ~ragContext.hasContext
    THEN [prompt |-> basePrompt \o INSTRUCTIONS,
          hasRAGContext |-> FALSE,
          contextSummary |-> Lit("No relevant documents found in knowledge base", 45),
          tokenEstimate |-> estimateTokens(basePrompt \o INSTRUCTIONS)]
    ELSE LET contextSummary == contextSummaryOf(ragContext)
             enhancedPrompt ==
                basePrompt \o KB_HEADER \o contextSummary \o Lit(":\\n\\n", 3)
                  \o ragContext.contextText \o INSTRUCTIONS
         IN  [prompt |-> enhancedPrompt,
              hasRAGContext |-> TRUE,
              contextSummary |-> contextSummary,
              tokenEstimate |-> estimateTokens(enhancedPrompt)]

buildEnhancedSystemPrompt(basePrompt, ragContext) ==
    IF ~ragContext.hasContext
    THEN [prompt |-> basePrompt,
          hasRAGContext |-> FALSE,
          contextSummary |-> Lit("No relevant documents found in knowledge base", 45),
          tokenEstimate |-> estimateTokens(basePrompt)]
    ELSE LET contextSummary == contextSummaryOf(ragContext)
             enhancedPrompt ==
                basePrompt \o KB_HEADER \o contextSummary \o Lit(":\\n\\n", 3)
                  \o ragContext.contextText \o INSTRUCTIONS
         IN  [prompt |-> enhancedPrompt,
              hasRAGContext |-> TRUE,
              contextSummary |-> contextSummary,
              tokenEstimate |-> estimateTokens(enhancedPrompt)]

\* -------------------------------------------------------------- responses
SetHeader(h, k, v) == [x \in DOMAIN h \cup {k} |-> IF x = k THEN v ELSE h[x]]

addCORSHeaders(h) ==
    SetHeader(SetHeader(SetHeader(h,
        "Access-Control-Allow-Origin", Lit("*", 1)),
        "Access-Control-Allow-Methods", Lit("GET, POST, OPTIONS", 18)),
        "Access-Control-Allow-Headers", Lit("Content-Type", 12))

NoHeaders == [x \in {} |-> << >>]

NoBody == [kind |-> "none", error |-> << >>, details |-> FALSE, timestamp |-> << >>, stream |-> "none"]

createCORSResponse == [status |-> 200, headers |-> addCORSHeaders(NoHeaders), body |-> NoBody]

\* createErrorResponse without the call of addCORSHeaders
createErrorResponse_NoCORS(message, status, details) ==
    [status |-> status,
     headers |-> SetHeader(NoHeaders, "Content-Type", Lit("application/json", 16)),
     body |-> [kind |-> "json", error |-> message, details |-> details,
              timestamp |-> Lit("toISOString", 24), stream |-> "none"]]

createErrorResponse(message, status, details) ==
    [status |-> status,
     headers |-> addCORSHeaders(SetHeader(NoHeaders, "Content-Type", Lit("application/json", 16))),
     body |-> [kind |-> "json", error |-> message, details |-> details,
              timestamp |-> Lit("toISOString", 24), stream |-> "none"]]

\* ------------------------------------------------------------- generation
\* outcomes of env.AI.run(model, {messages, ...}, {returnRawResponse: true})
UpstreamHeaders == SetHeader(NoHeaders, "Content-Type", Lit("text/event-stream", 17))

LLMResponse(status, text) ==
    [kind |-> "response", status |-> status, statusText |-> text, isError |-> FALSE,
     message |-> << >>]

LLMThrow(isError, message) ==
    [kind |-> "throw", status |-> 0, statusText |-> << >>, isError |-> isError,
     message |-> message]

LLMOutcomes ==
    { LLMResponse(200, Lit("OK", 2)),
      LLMResponse(500, Lit("Internal Server Error", 21)),
      LLMThrow(TRUE, Lit("upstream failure", 16)),
      LLMThrow(FALSE, << >>) }

\* Response.ok
ok(response) == response.status >= 200 /\ response.status <= 299

\* a thrown value: an Error with a message, or any other value
Thrown(isError, message) == [isError |-> isError, message |-> message]
NotThrown == Thrown(FALSE, << >>)

\* the streaming Response generateLLMResponse wraps around the provider's body
streamingResponse(outcome) ==
    [status |-> outcome.status,
     headers |-> addCORSHeaders(
        SetHeader(SetHeader(SetHeader(NoHeaders,
            "Content-Type", Lit("text/event-stream", 17)),
            "Cache-Control", Lit("no-cache", 8)),
            "Connection", Lit("keep-alive", 10))),
     body |-> [kind |-> "stream", error |-> << >>, details |-> FALSE, timestamp |-> << >>, stream |-> "primary"]]

\* generateLLMResponse without the response.ok check
generateLLMResponse_IgnoresStatus(outcome) ==
    IF outcome.kind = "throw"
    THEN [threw |-> TRUE, error |-> Thrown(outcome.isError, outcome.message),
          response |-> createCORSResponse]
    ELSE [threw |-> FALSE, error |-> NotThrown, response |-> streamingResponse(outcome)]

\* result of generateLLMResponse for the outcome of its env.AI.run call:
\* either it throws (threw, error) or it returns response
generateLLMResponse(outcome) ==
    IF outcome.kind = "throw"
    THEN [threw |-> TRUE, error |-> Thrown(outcome.isError, outcome.message),
          response |-> createCORSResponse]
    ELSE IF ~ok(outcome)
    THEN [threw |-> TRUE,
          error |-> Thrown(TRUE, Lit("LLM API error: ", 15) \o IntToStr(outcome.status)
                                   \o Lit(" ", 1) \o outcome.statusText),
          response |-> createCORSResponse]
    ELSE [threw |-> FALSE, error |-> NotThrown, response |-> streamingResponse(outcome)]

\* the filter left out: client system messages are passed on
withoutSystem_KeepsAll(messages) == messages

\* messages.filter(msg => msg.role !== "system")
withoutSystem(messages) == SelectSeq(messages, LAMBDA msg : msg.role # ROLE_SYSTEM)

SystemMessage(content) == [typeof |-> "object", role |-> ROLE_SYSTEM, content |-> JStr(content)]

\* context.systemPrompt || CONFIG.defaultSystemPrompt
basePromptOf(systemPrompt) ==
    IF Truthy(systemPrompt) THEN systemPrompt.val ELSE DEFAULT_SYSTEM_PROMPT

enhancedMessagesOf(chatRequest, enhancedPrompt) ==
    << SystemMessage(enhancedPrompt.prompt) >> \o withoutSystem(chatRequest.messages.elems)

fallbackMessagesOf(chatRequest, context) ==
    << SystemMessage(basePromptOf(context.systemPrompt)) >>
      \o withoutSystem(chatRequest.messages.elems)

\* the ProcessingError built in the catch block of processAutoRAGPipeline
processingErrorOf(error, context) ==
    [stage |-> "llm",
     message |-> IF error.isError THEN error.message ELSE Lit("Pipeline processing failed", 26),
     context |-> context,
     recoverable |-> TRUE]

\* the response processAutoRAGPipeline returns after a successful primary call
pipelineResponse(response, ragContext, context) ==
    [status |-> response.status,
     headers |->
        SetHeader(SetHeader(SetHeader(SetHeader(response.headers,
            "X-Processing-Time", Lit("elapsed ms", 10)),
            "X-RAG-Documents", IntToStr(ragContext.documentCount)),
            "X-RAG-Average-Score",
                toFixed(ragContext.averageScore.num, ragContext.averageScore.den, 3)),
            "X-Request-ID", context.requestId),
     body |-> response.body]

\* handlePipelineFailure without the X-Fallback-Used header
fallbackResponse_NoFlag(outcome, error) ==
    IF outcome.kind = "throw" \/ ~ok(outcome)
    THEN createErrorResponse(LLM_FAILURE, 503, TRUE)
    ELSE [status |-> outcome.status,
          headers |->
            addCORSHeaders(SetHeader(SetHeader(UpstreamHeaders,
                "X-Original-Error", error.message),
                "X-Request-ID", error.context.requestId)),
          body |-> [kind |-> "stream", error |-> << >>, details |-> FALSE, timestamp |-> << >>,
                    stream |-> "fallback"]]

\* handlePipelineFailure reporting the primary failure's message in the body
fallbackResponse_LeaksMessage(outcome, error) ==
    IF outcome.kind = "throw" \/ ~ok(outcome)
    THEN createErrorResponse(error.message, 503, TRUE)
    ELSE [status |-> outcome.status,
          headers |->
            addCORSHeaders(SetHeader(SetHeader(SetHeader(UpstreamHeaders,
                "X-Fallback-Used", Lit("true", 4)),
                "X-Original-Error", error.message),
                "X-Request-ID", error.context.requestId)),
          body |-> [kind |-> "stream", error |-> << >>, details |-> FALSE, timestamp |-> << >>,
                    stream |-> "fallback"]]

\* what handlePipelineFailure returns for the outcome of its env.AI.run call
fallbackResponse(outcome, error) ==
    IF outcome.kind = "throw" \/ ~ok(outcome)
    THEN createErrorResponse(LLM_FAILURE, 503, TRUE)
    ELSE [status |-> outcome.status,
          headers |->
            addCORSHeaders(SetHeader(SetHeader(SetHeader(UpstreamHeaders,
                "X-Fallback-Used", Lit("true", 4)),
                "X-Original-Error", error.message),
                "X-Request-ID", error.context.requestId)),
          body |-> [kind |-> "stream", error |-> << >>, details |-> FALSE, timestamp |-> << >>,
                    stream |-> "fallback"]]

\* ----------------------------------------------------------- request context
RECURSIVE lastUser(_)
lastUser(messages) ==
    IF messages = << >> THEN JUndef
    ELSE IF messages[Len(messages)].role = ROLE_USER THEN messages[Len(messages)].content
    ELSE lastUser(SubSeq(messages, 1, Len(messages) - 1))

getUserMessage_LastOfAny(messages) ==
    IF messages # << >> /\ Truthy(messages[Len(messages)].content)
    THEN messages[Len(messages)].content.val ELSE << >>

\* userMessages[userMessages.length - 1]?.content || ""
getUserMessage(messages) ==
    IF Truthy(lastUser(messages)) THEN lastUser(messages).val ELSE << >>

\* { ...a, ...b }
Spread(a, b) == [k \in DOMAIN a \cup DOMAIN b |-> IF k \in DOMAIN b THEN b[k] ELSE a[k]]

ragSettingsOf_ClientIndexWins(chatRequest) ==
    LET client == IF chatRequest.ragSettings.typeof = "object"
                  THEN chatRequest.ragSettings.fields ELSE [x \in {} |-> 0]
    IN  Spread(Spread(DEFAULT_RAG_SETTINGS, [index |-> DEFAULT_INDEX]), client)

ragSettingsOf(chatRequest) ==
    LET client == IF chatRequest.ragSettings.typeof = "object"
                  THEN chatRequest.ragSettings.fields ELSE [x \in {} |-> 0]
    IN  Spread(Spread(DEFAULT_RAG_SETTINGS, client), [index |-> DEFAULT_INDEX])

requestContextOf(chatRequest) ==
    [userMessage |-> getUserMessage(chatRequest.messages.elems),
     systemPrompt |-> chatRequest.systemPrompt,
     ragSettings |-> ragSettingsOf(chatRequest),
     requestId |-> Lit("req_id", 24)]

searchOptionsOf(query, ragSettings) ==
    [index |-> ragSettings.index,
     query |-> query,
     max_num_results |-> ragSettings.maxResults,
     score_threshold |-> ragSettings.scoreThreshold,
     rewrite_query |-> ragSettings.rewriteQuery]

\* ------------------------------------------------------------------ state
\* ------------------------------------------------- browser client: constants
\* the most exchanges (calls of sendMessage that pass its guard) of a run
MaxExchanges == 2

maxRetryAttempts == 3

CONFIG ==
    [autoragIndex |-> "damagescan-rag-1",
     ragSettings |-> [maxResults |-> 5, scoreThreshold |-> 10, rewriteQuery |-> TRUE]]

ERROR_MESSAGES ==
    [LLM_FAILURE |-> LLM_FAILURE,
     RATE_LIMITED |-> Lit("Too many requests. Please wait a moment before trying again.", 60),
     TIMEOUT |-> Lit("Request timed out. Please try again with a shorter message.", 59),
     NETWORK_ERROR |-> Lit("Network error occurred. Please check your connection.", 53),
     UNKNOWN_ERROR |-> Lit("An unexpected error occurred. Please try again.", 47)]

GREETING == Lit("Hello! I'm an AI assistant", 206)
CONNECTION_LOST == Lit("Connection lost. Please check your internet connection and try again.", 69)
NO_CONTENT == Lit("No response content received", 28)

\* an entry of chatHistory (its timestamp and metadata are left out)
HistoryEntry(role, content) == [role |-> role, content |-> content]

\* an element of the chat-messages container: kind tells which call added it
\* (user, assistant for the streamed answer, error, notice for "Retrying...",
\* lost for "Connection lost"), exchange is the sendMessage call it belongs to
\* (0 for none)
MessageEl(kind, content, messageId, exchange) ==
    [kind |-> kind, content |-> content, messageId |-> messageId, exchange |-> exchange]

VARIABLES
    pc,              \* where the request is: idle, awaitSearch, awaitPrimary, awaitFallback, done
    request,         \* the inbound request: method, path, body
    validation,      \* the ValidationResult of handleChatRequest
    chatRequest,     \* validation.sanitizedInput
    context,         \* the RequestContext
    ragContext,      \* the RAGContext returned by searchAutoRAG
    enhancedPrompt,  \* the EnhancedSystemPrompt
    searchCalls,     \* the options of every search call issued, in order
    searchResults,   \* the outcome of every search call
    llmCalls,        \* the messages of every env.AI.run call issued, in order
    llmResults,      \* the outcome of every env.AI.run call
    processingError, \* the ProcessingError handed to handlePipelineFailure
    response         \* the Response returned to the client

\* the state of the browser client
VARIABLES
    userInput,        \* userInput.value
    systemPromptInput,\* systemPromptInput.value
    chatHistory,      \* the chatHistory array
    isProcessing,     \* the isProcessing flag (userInput.disabled and sendButton.disabled follow it)
    retryAttempts,    \* the retryAttempts counter
    messageIdCounter, \* the messageIdCounter
    chatMessages,     \* the elements appended to the chat-messages container, in order
    typingIndicator,  \* TRUE when the typing indicator is visible
    exchanges,        \* the calls of sendMessage that passed the guard, each with its position
    fetchCalls,       \* the body of every fetch("/api/chat") issued, in order
    timers,           \* the pending setTimeout callbacks
    timerSeq          \* the number of handleChatError calls that scheduled timers

svars == << pc, request, validation, chatRequest, context, ragContext, enhancedPrompt,
            searchCalls, searchResults, llmCalls, llmResults, processingError, response >>

cvars == << userInput, systemPromptInput, chatHistory, isProcessing, retryAttempts,
            messageIdCounter, chatMessages, typingIndicator, exchanges, fetchCalls,
            timers, timerSeq >>

\* a call of one function of the client on an input of its own
VARIABLES
    call              \* the function called, its input, its position and its result

pvars == << call >>

vars == << svars, cvars, pvars >>

Methods == { "OPTIONS", "GET", "POST" }
Paths == { "/", "/index.html", "/api/chat", "/api/other" }

\* url.pathname.startsWith("/api/")
\* the route test that knows the chat route only
startsWithApi_ChatOnly(path) == path \in { "/api/chat" }

startsWithApi(path) == path \in { "/api/chat", "/api/other" }

RawBodies == Bodies \cup { BadJSON }

NoValidation == [valid |-> FALSE, errors |-> << >>, sanitizedInput |-> JUndef]
NoRequest == [method |-> "", path |-> "", body |-> JUndef]
NoResponse == [status |-> 0, headers |-> NoHeaders, body |-> NoBody]

\* no function is being called on an input of its own
NoCall ==
    [fn |-> "none", pc |-> "none", lines |-> << >>, rest |-> << >>, responseText |-> << >>,
     hasContent |-> FALSE, threw |-> FALSE, message |-> << >>, errorMessage |-> << >>,
     shouldRetry |-> FALSE, args |-> JUndef, result |-> JUndef]

\* the client as the page load leaves it (lines 75 to 93), with the given text
\* in the system prompt field
ClientStart(systemPrompt) ==
    /\ userInput = << >>
    /\ systemPromptInput = systemPrompt
    /\ chatHistory = << HistoryEntry(ROLE_ASSISTANT, GREETING) >>
    /\ isProcessing = FALSE
    /\ retryAttempts = 0
    /\ messageIdCounter = 0
    /\ chatMessages = << >>
    /\ typingIndicator = FALSE
    /\ exchanges = << >>
    /\ fetchCalls = << >>
    /\ timers = {}
    /\ timerSeq = 0

Init ==
    /\ pc = "idle"
    /\ request = NoRequest
    /\ validation = NoValidation
    /\ chatRequest = JUndef
    /\ context = JUndef
    /\ ragContext = JUndef
    /\ enhancedPrompt = JUndef
    /\ searchCalls = << >>
    /\ searchResults = << >>
    /\ llmCalls = << >>
    /\ llmResults = << >>
    /\ processingError = JUndef
    /\ response = NoResponse
    /\ ClientStart(<< >>)
    /\ call = NoCall

\* the handler returns r without entering the pipeline
Return(r) ==
    /\ pc' = "done"
    /\ response' = r
    /\ UNCHANGED << chatRequest, context, ragContext, enhancedPrompt, searchCalls,
                    searchResults, llmCalls, llmResults, processingError >>

\* handlePipelineFailure up to its await: the fallback call is issued
handlePipelineFailure(error) ==
    /\ processingError' = error
    /\ llmCalls' = Append(llmCalls, fallbackMessagesOf(chatRequest, error.context))
    /\ pc' = "awaitFallback"
    /\ UNCHANGED response

\* handleChatRequest that reports a body that is not JSON as a validation
\* failure
handleChatRequest_BadJSON400(raw) ==
    IF raw = BadJSON
    THEN /\ validation' = NoValidation
         /\ Return(createErrorResponse(Lit("Invalid request: ", 17), 400, FALSE))
    ELSE /\ validation' = validateChatRequest(raw)
         /\ IF ~validation'.valid
            THEN Return(createErrorResponse(
                        Lit("Invalid request: ", 17) \o join(validation'.errors, Lit(", ", 2)),
                        400, FALSE))
            ELSE /\ chatRequest' = validation'.sanitizedInput
                 /\ context' = requestContextOf(chatRequest')
                 /\ searchCalls' = Append(searchCalls,
                        searchOptionsOf(context'.userMessage, context'.ragSettings))
                 /\ pc' = "awaitSearch"
                 /\ UNCHANGED << ragContext, enhancedPrompt, searchResults, llmCalls,
                                 llmResults, processingError, response >>

\* handleChatRequest up to the first await of the pipeline (the search call)
handleChatRequest(raw) ==
    IF raw = BadJSON
    THEN /\ validation' = NoValidation
         /\ Return(createErrorResponse(Lit("Internal server error occurred", 30), 500, TRUE))
    ELSE /\ validation' = validateChatRequest(raw)
         /\ IF ~validation'.valid
            THEN Return(createErrorResponse(
                        Lit("Invalid request: ", 17) \o join(validation'.errors, Lit(", ", 2)),
                        400, FALSE))
            ELSE /\ chatRequest' = validation'.sanitizedInput
                 /\ context' = requestContextOf(chatRequest')
                 /\ searchCalls' = Append(searchCalls,
                        searchOptionsOf(context'.userMessage, context'.ragSettings))
                 /\ pc' = "awaitSearch"
                 /\ UNCHANGED << ragContext, enhancedPrompt, searchResults, llmCalls,
                                 llmResults, processingError, response >>

\* the Worker's fetch handler
Fetch ==
    /\ pc = "idle"
    /\ \E method \in Methods, path \in Paths :
         IF method = "OPTIONS"
         THEN /\ request' = [method |-> method, path |-> path, body |-> JUndef]
              /\ validation' = NoValidation
              /\ Return(createCORSResponse)
         ELSE IF path = "/" \/ ~startsWithApi(path)
         THEN /\ request' = [method |-> method, path |-> path, body |-> JUndef]
              /\ validation' = NoValidation
              /\ Return([status |-> 200, headers |-> NoHeaders,
                         body |-> [kind |-> "asset", error |-> << >>, details |-> FALSE, timestamp |-> << >>,
                                   stream |-> "none"]])
         ELSE IF path = "/api/chat"
         THEN IF method = "POST"
              THEN \E raw \in RawBodies :
                     /\ request' = [method |-> method, path |-> path, body |-> raw]
                     /\ handleChatRequest(raw)
              ELSE /\ request' = [method |-> method, path |-> path, body |-> JUndef]
                   /\ validation' = NoValidation
                   /\ Return(createErrorResponse(Lit("Method not allowed", 18), 405, FALSE))
         ELSE /\ request' = [method |-> method, path |-> path, body |-> JUndef]
              /\ validation' = NoValidation
              /\ Return(createErrorResponse(Lit("Not found", 9), 404, FALSE))
    /\ UNCHANGED << cvars, pvars >>

\* processAutoRAGPipeline from the moment the search call settles with one
\* of the outcomes given: steps 1 to 3, and the primary generation call is
\* issued
processAutoRAGPipeline(outcomes) ==
    \E outcome \in outcomes :
         LET r == searchAutoRAG(outcome)
         IN  /\ searchResults' = Append(searchResults, outcome)
             /\ IF r.raised
                THEN /\ handlePipelineFailure(
                            processingErrorOf(Thrown(TRUE, Lit("search failed", 13)), context))
                     /\ UNCHANGED << ragContext, enhancedPrompt >>
                ELSE /\ ragContext' = r.value
                     /\ enhancedPrompt' = buildEnhancedSystemPrompt(
                            basePromptOf(context.systemPrompt), r.value)
                     /\ llmCalls' = Append(llmCalls,
                            enhancedMessagesOf(chatRequest, enhancedPrompt'))
                     /\ pc' = "awaitPrimary"
                     /\ UNCHANGED << processingError, response >>

\* the search call settles
SearchReturns ==
    /\ pc = "awaitSearch"
    /\ processAutoRAGPipeline(SearchOutcomes)
    /\ UNCHANGED << request, validation, chatRequest, context, searchCalls, llmResults >>
    /\ UNCHANGED << cvars, pvars >>

\* the primary generation call settles: the response is returned, or the
\* catch block of processAutoRAGPipeline hands over to handlePipelineFailure
PrimaryReturns ==
    /\ pc = "awaitPrimary"
    /\ \E outcome \in LLMOutcomes :
         LET r == generateLLMResponse(outcome)
         IN  /\ llmResults' = Append(llmResults, outcome)
             /\ IF r.threw
                THEN handlePipelineFailure(processingErrorOf(r.error, context))
                ELSE /\ response' = pipelineResponse(r.response, ragContext, context)
                     /\ pc' = "done"
                     /\ UNCHANGED << llmCalls, processingError >>
    /\ UNCHANGED << request, validation, chatRequest, context, ragContext, enhancedPrompt,
                    searchCalls, searchResults >>
    /\ UNCHANGED << cvars, pvars >>

\* the fallback generation call settles: handlePipelineFailure returns
FallbackReturns ==
    /\ pc = "awaitFallback"
    /\ \E outcome \in LLMOutcomes :
         /\ llmResults' = Append(llmResults, outcome)
         /\ response' = fallbackResponse(outcome, processingError)
         /\ pc' = "done"
    /\ UNCHANGED << request, validation, chatRequest, context, ragContext, enhancedPrompt,
                    searchCalls, searchResults, llmCalls, processingError >>
    /\ UNCHANGED << cvars, pvars >>

Next == Fetch \/ SearchReturns \/ PrimaryReturns \/ FallbackReturns

Spec == Init /\ [][Next]_vars

\* ------------------------------------- the request handler on its own
\* the search outcomes that differ for the handler: the call throws, the
\* result has no data array, and the array is empty, holds a document that
\* is used or holds one that is skipped
HandlerSearchOutcomes ==
    { [kind |-> "throw"],
      [kind |-> "value", value |-> JNull],
      [kind |-> "value", value |-> [typeof |-> "object", data |-> JArr(<< >>)]],
      [kind |-> "value", value |-> [typeof |-> "object",
           data |-> JArr(<< Doc("f1", 80, << TextItem(Lit("T1", 10)) >>) >>)]],
      [kind |-> "value", value |-> [typeof |-> "object", data |-> JArr(<< JNull >>)]] }

\* the search call settles with one of these outcomes
SearchSettles ==
    /\ pc = "awaitSearch"
    /\ processAutoRAGPipeline(HandlerSearchOutcomes)
    /\ UNCHANGED << request, validation, chatRequest, context, searchCalls, llmResults >>
    /\ UNCHANGED << cvars, pvars >>

NextHandler == Fetch \/ SearchSettles \/ PrimaryReturns \/ FallbackReturns

\* routing, validation, the search call's inputs and the status of the
\* response do not depend on what the documents hold
SpecHandler == Init /\ [][NextHandler]_vars

\* =========================================================== browser client
\* ------------------------------------------------------- strings of the client
\* String.prototype.includes, startsWith and substring on chunked strings: the
\* literals the client looks for are chunks of their own
includes(s, pat) ==
    \E i \in 1..(Len(s) - Len(pat) + 1) : SubSeq(s, i, i + Len(pat) - 1) = pat

startsWith(s, pat) == Len(s) >= Len(pat) /\ SubSeq(s, 1, Len(pat)) = pat

RECURSIVE substring(_, _)
substring(s, n) ==
    IF n = 0 \/ s = << >> THEN s
    ELSE IF Head(s).len <= n THEN substring(Tail(s), n - Head(s).len)
    ELSE Lit("rest of a chunk", Head(s).len - n) \o Tail(s)

\* ---------------------------------------------------------- stream reader
DATA == Lit("data:", 5)
SP == Lit(" ", 1)
COLON == Lit(":", 1)
OPEN == Lit("{\"response\":\"", 13)
CLOSE == Lit("\"}", 2)
OBJ == Lit("{\"p\":1}", 7)
DONE == Lit("[DONE]", 6)

\* the chunks a JSON string value is made of in the streams of the model
TextTags == { "Hi", "there", " " }

\* JSON.parse of a line's payload: an object with a string response, an
\* object without one, or a SyntaxError (ok is FALSE)
JSONparse(text) ==
    LET t == trim(text)
    IN  IF /\ Len(t) >= 2
           /\ t[1] = OPEN[1]
           /\ t[Len(t)] = CLOSE[1]
           /\ \A i \in 2..(Len(t) - 1) : t[i].tag \in TextTags
        THEN [ok |-> TRUE, response |-> JStr(SubSeq(t, 2, Len(t) - 1))]
        ELSE IF t = OBJ
        THEN [ok |-> TRUE, response |-> JUndef]
        ELSE [ok |-> FALSE, response |-> JUndef]

\* chunk.split("\n")
RECURSIVE split(_)
split(chunk) ==
    IF \A i \in 1..Len(chunk) : chunk[i] # NL[1]
    THEN << chunk >>
    ELSE LET i == CHOOSE k \in 1..Len(chunk) :
                      chunk[k] = NL[1] /\ \A j \in 1..(k - 1) : chunk[j] # NL[1]
         IN  << SubSeq(chunk, 1, i - 1) >> \o split(SubSeq(chunk, i + 1, Len(chunk)))

NoText == [responseText |-> << >>, hasContent |-> FALSE]

AppendText(acc, text) == [responseText |-> acc.responseText \o text, hasContent |-> TRUE]

processLine_NoPlainText(acc, line) ==
    IF trim(line) = << >> \/ startsWith(line, COLON)
    THEN acc
    ELSE LET jsonData == IF startsWith(line, DATA \o SP)
                         THEN JSONparse(substring(line, 6))
                         ELSE JSONparse(line)
         IN  IF jsonData.ok /\ Truthy(jsonData.response)
             THEN AppendText(acc, jsonData.response.val)
             ELSE acc

\* the body of the loop over the lines of a chunk (lines 440 to 473)
processLine(acc, line) ==
    IF trim(line) = << >> \/ startsWith(line, COLON)
    THEN acc
    ELSE LET jsonData == IF startsWith(line, DATA \o SP)
                         THEN JSONparse(substring(line, 6))
                         ELSE JSONparse(line)
         IN  IF jsonData.ok
             THEN IF Truthy(jsonData.response)
                  THEN AppendText(acc, jsonData.response.val)
                  ELSE acc
             ELSE IF trim(line) # << >> /\ ~startsWith(line, DATA) /\ ~startsWith(line, COLON)
                  THEN AppendText(acc, line)
                  ELSE acc

RECURSIVE processLines(_, _)
processLines(acc, lines) ==
    IF lines = << >> THEN acc
    ELSE processLines(processLine(acc, Head(lines)), Tail(lines))

\* one turn of the read loop: the chunk is decoded, split and its lines processed
processChunk(acc, chunk) == processLines(acc, split(chunk))

RECURSIVE processChunks(_, _)
processChunks(acc, chunks) ==
    IF chunks = << >> THEN acc
    ELSE processChunks(processChunk(acc, Head(chunks)), Tail(chunks))


\* ----------------------------------------------------------- error handler
\* `HTTP ${response.status}` as it stands in the message sendMessage throws
HttpStatus(status) == Lit("HTTP ", 5) \o IntToStr(status)

HttpError(status, statusText) == HttpStatus(status) \o Lit(": ", 2) \o statusText

FAILED_TO_FETCH == Lit("Failed to fetch", 15)
NETWORK_ERROR_NAME == Lit("NetworkError", 12)
TIMEOUT_WORD == Lit("timeout", 7)

classifyError_TimeoutFirst(message) ==
    IF includes(message, TIMEOUT_WORD)
    THEN [errorMessage |-> ERROR_MESSAGES.TIMEOUT, shouldRetry |-> FALSE]
    ELSE IF includes(message, HttpStatus(503)) \/ includes(message, HttpStatus(502))
    THEN [errorMessage |-> ERROR_MESSAGES.LLM_FAILURE, shouldRetry |-> TRUE]
    ELSE IF includes(message, HttpStatus(429))
    THEN [errorMessage |-> ERROR_MESSAGES.RATE_LIMITED, shouldRetry |-> TRUE]
    ELSE IF includes(message, NETWORK_ERROR_NAME) \/ includes(message, FAILED_TO_FETCH)
    THEN [errorMessage |-> ERROR_MESSAGES.NETWORK_ERROR, shouldRetry |-> TRUE]
    ELSE [errorMessage |-> ERROR_MESSAGES.UNKNOWN_ERROR, shouldRetry |-> FALSE]

classifyError_UnknownRetries(message) ==
    IF includes(message, HttpStatus(503)) \/ includes(message, HttpStatus(502))
    THEN [errorMessage |-> ERROR_MESSAGES.LLM_FAILURE, shouldRetry |-> TRUE]
    ELSE IF includes(message, HttpStatus(429))
    THEN [errorMessage |-> ERROR_MESSAGES.RATE_LIMITED, shouldRetry |-> TRUE]
    ELSE IF includes(message, NETWORK_ERROR_NAME) \/ includes(message, FAILED_TO_FETCH)
    THEN [errorMessage |-> ERROR_MESSAGES.NETWORK_ERROR, shouldRetry |-> TRUE]
    ELSE IF includes(message, TIMEOUT_WORD)
    THEN [errorMessage |-> ERROR_MESSAGES.TIMEOUT, shouldRetry |-> FALSE]
    ELSE [errorMessage |-> ERROR_MESSAGES.UNKNOWN_ERROR, shouldRetry |-> TRUE]

\* the if/else chain of handleChatError (lines 648 to 667)
classifyError(message) ==
    IF includes(message, HttpStatus(503)) \/ includes(message, HttpStatus(502))
    THEN [errorMessage |-> ERROR_MESSAGES.LLM_FAILURE, shouldRetry |-> TRUE]
    ELSE IF includes(message, HttpStatus(429))
    THEN [errorMessage |-> ERROR_MESSAGES.RATE_LIMITED, shouldRetry |-> TRUE]
    ELSE IF includes(message, NETWORK_ERROR_NAME) \/ includes(message, FAILED_TO_FETCH)
    THEN [errorMessage |-> ERROR_MESSAGES.NETWORK_ERROR, shouldRetry |-> TRUE]
    ELSE IF includes(message, TIMEOUT_WORD)
    THEN [errorMessage |-> ERROR_MESSAGES.TIMEOUT, shouldRetry |-> FALSE]
    ELSE [errorMessage |-> ERROR_MESSAGES.UNKNOWN_ERROR, shouldRetry |-> FALSE]

\* the text of the retry notice, built when its timer fires
retryNotice(attempts) ==
    Lit("Retrying... (attempt ", 21) \o IntToStr(attempts) \o Lit(" of ", 4)
      \o IntToStr(maxRetryAttempts) \o Lit(")", 1)

\* a pending setTimeout callback: seq orders the handleChatError calls that
\* set timers, delay is in milliseconds, exchange is the failed exchange
Timer(kind, delay, seq, exchange) ==
    [kind |-> kind, delay |-> delay, seq |-> seq, exchange |-> exchange]

\* a timer cannot fire while one that is due earlier is pending: one set no
\* later with a delay no longer
Fireable(t) ==
    ~\E u \in timers :
        /\ u # t
        /\ u.seq <= t.seq /\ u.delay <= t.delay
        /\ (u.seq < t.seq \/ u.delay < t.delay)

\* ------------------------------------------------------ client: the inputs
\* what the user leaves in the message field
InputValues == { << >>, SP \o Lit("hello", 5) \o SP }

\* what the page holds in the system prompt field
SystemPromptValues == { SP \o Lit("Be brief.", 9) }

\* how a fetch("/api/chat") settles: it rejects, or it resolves with a status
FetchReject(message) == [kind |-> "reject", status |-> 0, message |-> message]
FetchResponse(status, statusText) == [kind |-> "response", status |-> status, message |-> statusText]

FetchOutcomes ==
    { FetchReject(FAILED_TO_FETCH),
      FetchResponse(200, << >>),
      FetchResponse(500, Lit("Internal Server Error", 21)),
      FetchResponse(503, Lit("Service Unavailable", 19)) }

\* the bodies a 200 response streams, as the chunks reader.read() yields
DataLine(text) == DATA \o SP \o OPEN \o text \o CLOSE

ClientStreams ==
    { << >>,
      << DataLine(Lit("Hi", 2)) \o NL, DataLine(SP \o Lit("there", 5)) \o NL \o NL >> }

\* how the read loop ends: the stream is done, or reader.read() rejects
ReadErrors == { << >>, Lit("network error", 13) }

\* ------------------------------------------------------- client: the steps
\* finally of sendMessage, for the exchange i
Finally(i, result, error) ==
    /\ typingIndicator' = FALSE
    /\ isProcessing' = FALSE
    /\ exchanges' = [exchanges EXCEPT ![i].pc = "done", ![i].result = result,
                                     ![i].error = error]

handleChatError_Silent(message, i, shown) ==
    LET c == classifyError(message)
    IN  /\ chatMessages' = shown
        /\ UNCHANGED messageIdCounter
        /\ IF c.shouldRetry /\ retryAttempts < maxRetryAttempts
           THEN /\ retryAttempts' = retryAttempts + 1
                /\ timerSeq' = timerSeq + 1
                /\ timers' = timers \cup
                      { Timer("notice", 1000, timerSeq + 1, i),
                        Timer("resend", 2000 * (retryAttempts + 1), timerSeq + 1, i) }
           ELSE /\ retryAttempts' = 0
                /\ UNCHANGED << timers, timerSeq >>

\* handleChatError that allows a retry with the count at maxRetryAttempts
handleChatError_OneMore(message, i, shown) ==
    LET c == classifyError(message)
    IN  /\ chatMessages' = Append(shown,
               MessageEl("error", c.errorMessage, messageIdCounter + 1, i))
        /\ messageIdCounter' = messageIdCounter + 1
        /\ IF c.shouldRetry /\ retryAttempts <= maxRetryAttempts
           THEN /\ retryAttempts' = retryAttempts + 1
                /\ timerSeq' = timerSeq + 1
                /\ timers' = timers \cup
                      { Timer("notice", 1000, timerSeq + 1, i),
                        Timer("resend", 2000 * (retryAttempts + 1), timerSeq + 1, i) }
           ELSE /\ retryAttempts' = 0
                /\ UNCHANGED << timers, timerSeq >>

\* handleChatError, called from the catch block of sendMessage for the
\* exchange i; shown is the chat-messages container as the exchange left it
handleChatError(message, i, shown) ==
    LET c == classifyError(message)
    IN  /\ chatMessages' = Append(shown,
               MessageEl("error", c.errorMessage, messageIdCounter + 1, i))
        /\ messageIdCounter' = messageIdCounter + 1
        /\ IF c.shouldRetry /\ retryAttempts < maxRetryAttempts
           THEN /\ retryAttempts' = retryAttempts + 1
                /\ timerSeq' = timerSeq + 1
                /\ timers' = timers \cup
                      { Timer("notice", 1000, timerSeq + 1, i),
                        Timer("resend", 2000 * (retryAttempts + 1), timerSeq + 1, i) }
           ELSE /\ retryAttempts' = 0
                /\ UNCHANGED << timers, timerSeq >>

requestBodyOf_BeforePush(history) ==
    LET customSystemPrompt == trim(systemPromptInput)
    IN  [messages |-> SubSeq(history, 1, Len(history) - 1),
         systemPrompt |-> IF customSystemPrompt # << >> THEN JStr(customSystemPrompt)
                          ELSE JUndef,
         ragSettings |-> Spread(CONFIG.ragSettings, [index |-> CONFIG.autoragIndex])]

\* sendChatRequest: the body handed to fetch, built from the history given
requestBodyOf(history) ==
    LET customSystemPrompt == trim(systemPromptInput)
    IN  [messages |-> history,
         systemPrompt |-> IF customSystemPrompt # << >> THEN JStr(customSystemPrompt)
                          ELSE JUndef,
         ragSettings |-> Spread(CONFIG.ragSettings, [index |-> CONFIG.autoragIndex])]

\* sendMessage up to its first await: the guard, then the request is sent.
\* retryOf tells who called: 0 for the click or Enter listener, otherwise the
\* failed exchange whose retry timer made the call
sendMessage(retryOf) ==
    LET message == trim(userInput)
        i == Len(exchanges) + 1
    IN  IF message = << >> \/ isProcessing
        THEN UNCHANGED << userInput, chatHistory, isProcessing, messageIdCounter,
                          chatMessages, typingIndicator, exchanges, fetchCalls >>
        ELSE /\ isProcessing' = TRUE
             /\ messageIdCounter' = messageIdCounter + 2
             /\ chatMessages' = chatMessages
                   \o << MessageEl("user", message, messageIdCounter + 1, i),
                         MessageEl("assistant", << >>, messageIdCounter + 2, i) >>
             /\ userInput' = << >>
             /\ typingIndicator' = TRUE
             /\ chatHistory' = Append(chatHistory, HistoryEntry(ROLE_USER, message))
             /\ fetchCalls' = Append(fetchCalls,
                   [body |-> requestBodyOf(chatHistory'), exchange |-> i, retryOf |-> retryOf])
             /\ exchanges' = Append(exchanges,
                   [message |-> message, retryOf |-> retryOf, el |-> Len(chatMessages) + 2,
                    pc |-> "awaitFetch", result |-> "pending", error |-> << >>])

\* the answer put in front of the history
pushAssistant_Prepends(history, responseText) ==
    IF responseText # << >>
    THEN << HistoryEntry(ROLE_ASSISTANT, responseText) >> \o history
    ELSE history

pushAssistant_Always(history, responseText) ==
    Append(history, HistoryEntry(ROLE_ASSISTANT, responseText))

\* the push of the answer onto chatHistory at the end of the stream (lines 489 to 496)
pushAssistant(history, responseText) ==
    IF responseText # << >>
    THEN Append(history, HistoryEntry(ROLE_ASSISTANT, responseText))
    ELSE history

\* the guard of sendMessage lets the call through
Passes == trim(userInput) # << >> /\ ~isProcessing

\* ----------------------------------------------------- client: the actions
\* the user edits the message field (it is disabled while isProcessing)
TypeInput ==
    /\ ~isProcessing
    /\ \E v \in InputValues : v # userInput /\ userInput' = v
    /\ UNCHANGED << systemPromptInput, chatHistory, isProcessing, retryAttempts,
                    messageIdCounter, chatMessages, typingIndicator,
                    exchanges, fetchCalls, timers, timerSeq >>
    /\ UNCHANGED << svars, pvars >>

\* the click or Enter listener calls sendMessage
ManualSend ==
    /\ Passes => Len(exchanges) < MaxExchanges
    /\ sendMessage(0)
    /\ UNCHANGED << systemPromptInput, retryAttempts, timers, timerSeq >>
    /\ UNCHANGED << svars, pvars >>

\* the fetch of an exchange settles: on a rejection or a status that is not
\* ok the catch block and finally run, otherwise the stream is read
FetchSettles ==
    /\ \E i \in 1..Len(exchanges) :
         /\ exchanges[i].pc = "awaitFetch"
         /\ \E outcome \in FetchOutcomes :
              IF outcome.kind = "response" /\ outcome.status >= 200 /\ outcome.status <= 299
              THEN /\ exchanges' = [exchanges EXCEPT ![i].pc = "awaitStream"]
                   /\ UNCHANGED << isProcessing, retryAttempts, messageIdCounter,
                                   chatMessages, typingIndicator, timers, timerSeq >>
              ELSE LET message == IF outcome.kind = "reject" THEN outcome.message
                                  ELSE HttpError(outcome.status, outcome.message)
                   IN  /\ handleChatError(message, i, chatMessages)
                       /\ Finally(i, "failed", message)
    /\ UNCHANGED << userInput, systemPromptInput, chatHistory, fetchCalls >>
    /\ UNCHANGED << svars, pvars >>

\* processStreamingResponse runs to its end for an exchange, then the rest of
\* sendMessage: the read loop, the push onto chatHistory, the empty-stream
\* check, and the success or catch path with finally
StreamEnds ==
    /\ \E i \in 1..Len(exchanges) :
         /\ exchanges[i].pc = "awaitStream"
         /\ \E chunks \in ClientStreams, readError \in ReadErrors :
              LET r == processChunks(NoText, chunks)
                  shown == [chatMessages EXCEPT ![exchanges[i].el].content = r.responseText]
              IN  IF readError # << >>
                  THEN /\ UNCHANGED chatHistory
                       /\ handleChatError(readError, i, shown)
                       /\ Finally(i, "failed", readError)
                  ELSE /\ chatHistory' = pushAssistant(chatHistory, r.responseText)
                       /\ IF ~r.hasContent
                          THEN /\ handleChatError(NO_CONTENT, i, shown)
                               /\ Finally(i, "failed", NO_CONTENT)
                          ELSE /\ chatMessages' = shown
                               /\ retryAttempts' = 0
                               /\ Finally(i, "success", << >>)
                               /\ UNCHANGED << messageIdCounter, timers, timerSeq >>
    /\ UNCHANGED << userInput, systemPromptInput, fetchCalls >>
    /\ UNCHANGED << svars, pvars >>

\* the 1000 ms timer of handleChatError fires: the retry notice is shown
NoticeTimerFires ==
    /\ \E t \in timers :
         /\ t.kind = "notice" /\ Fireable(t)
         /\ timers' = timers \ { t }
         /\ chatMessages' = Append(chatMessages,
               MessageEl("notice", retryNotice(retryAttempts), messageIdCounter + 1,
                         t.exchange))
         /\ messageIdCounter' = messageIdCounter + 1
    /\ UNCHANGED << userInput, systemPromptInput, chatHistory, isProcessing, retryAttempts,
                    typingIndicator, exchanges, fetchCalls, timerSeq >>
    /\ UNCHANGED << svars, pvars >>

\* the 2000 * retryAttempts ms timer of handleChatError fires: sendMessage is called
ResendTimerFires ==
    /\ Passes => Len(exchanges) < MaxExchanges
    /\ \E t \in timers :
         /\ t.kind = "resend" /\ Fireable(t)
         /\ timers' = timers \ { t }
         /\ sendMessage(t.exchange)
    /\ UNCHANGED << systemPromptInput, retryAttempts, timerSeq >>
    /\ UNCHANGED << svars, pvars >>

\* the offline listener (the colour of the status indicator is left out)
handleConnectionLoss ==
    /\ IF isProcessing
       THEN /\ chatMessages' = Append(chatMessages,
                  MessageEl("lost", CONNECTION_LOST, messageIdCounter + 1, 0))
            /\ messageIdCounter' = messageIdCounter + 1
            /\ isProcessing' = FALSE
            /\ typingIndicator' = FALSE
       ELSE UNCHANGED << chatMessages, messageIdCounter, isProcessing, typingIndicator >>
    /\ UNCHANGED << userInput, systemPromptInput, chatHistory, retryAttempts, exchanges,
                    fetchCalls, timers, timerSeq >>
    /\ UNCHANGED << svars, pvars >>

\* the online listener: it changes the colour of the status indicator only,
\* which is no part of the state of the model
handleConnectionRestore ==
    /\ UNCHANGED << svars, cvars, pvars >>

NextClient ==
    \/ TypeInput
    \/ ManualSend
    \/ FetchSettles
    \/ StreamEnds
    \/ NoticeTimerFires
    \/ ResendTimerFires
    \/ handleConnectionLoss
    \/ handleConnectionRestore

\* the page is loaded and no request has reached the Worker of the model
InitClient ==
    /\ pc = "idle"
    /\ request = NoRequest
    /\ validation = NoValidation
    /\ chatRequest = JUndef
    /\ context = JUndef
    /\ ragContext = JUndef
    /\ enhancedPrompt = JUndef
    /\ searchCalls = << >>
    /\ searchResults = << >>
    /\ llmCalls = << >>
    /\ llmResults = << >>
    /\ processingError = JUndef
    /\ response = NoResponse
    /\ \E systemPrompt \in SystemPromptValues : ClientStart(systemPrompt)
    /\ call = NoCall

SpecClient == InitClient /\ [][NextClient]_vars

\* the client when every fetch and every stream read settles in the end:
\* the transport answers or rejects each request, and each stream is done
\* or its read rejects
SpecClientFair ==
    InitClient /\ [][NextClient]_vars /\ WF_vars(FetchSettles) /\ WF_vars(StreamEnds)

\* ------------------------------- client functions on inputs of their own
\* the most lines of a stream and the most parts of an error message
MaxLines == 3
MaxParts == 2

\* the lines of a stream: event lines with a response, a blank line, a
\* comment, the end marker, bare JSON, plain text, an event line without the
\* space, an object without a response, a line of spaces, an empty response,
\* and an event line behind a space
Lines ==
    { DataLine(Lit("Hi", 2)),
      DataLine(SP \o Lit("there", 5)),
      << >>,
      COLON \o Lit("keep-alive", 10),
      DATA \o SP \o DONE,
      OPEN \o Lit("Hi", 2) \o CLOSE,
      Lit("oops", 4),
      DATA \o OPEN \o Lit("Hi", 2) \o CLOSE,
      DATA \o SP \o OBJ,
      SP,
      DataLine(<< >>),
      SP \o DataLine(Lit("Hi", 2)) }

\* the parts error messages are made of
MessageParts ==
    { HttpStatus(503), HttpStatus(502), HttpStatus(429), HttpStatus(400), HttpStatus(500),
      NETWORK_ERROR_NAME, FAILED_TO_FETCH, TIMEOUT_WORD, NO_CONTENT, Lit("Load failed", 11) }

ErrorTexts == { join(parts, << >>) : parts \in SeqsUpTo(MessageParts, MaxParts) }

\* the text of a chunk that holds the given lines whole
RECURSIVE wholeLines(_)
wholeLines(ls) == IF ls = << >> THEN << >> ELSE Head(ls) \o NL \o wholeLines(Tail(ls))

\* processStreamingResponse is called on a stream of its own
CallProcessStreamingResponse ==
    /\ call.pc = "none"
    /\ \E lines \in SeqsUpTo(Lines, MaxLines) :
         call' = [NoCall EXCEPT !.fn = "processStreamingResponse", !.pc = "reading",
                                !.lines = lines, !.rest = lines]
    /\ UNCHANGED << svars, cvars >>

\* reader.read() yields a chunk of whole lines: one turn of the read loop
ReadChunk ==
    /\ call.pc = "reading" /\ call.rest # << >>
    /\ \E k \in 1..Len(call.rest) :
         LET acc == processChunk([responseText |-> call.responseText,
                                  hasContent |-> call.hasContent],
                                 wholeLines(SubSeq(call.rest, 1, k)))
         IN  call' = [call EXCEPT !.rest = SubSeq(call.rest, k + 1, Len(call.rest)),
                                  !.responseText = acc.responseText,
                                  !.hasContent = acc.hasContent]
    /\ UNCHANGED << svars, cvars >>

\* reader.read() reports done: the empty-stream check of lines 499 to 501
ReadDone ==
    /\ call.pc = "reading" /\ call.rest = << >>
    /\ call' = [call EXCEPT !.pc = "done", !.threw = ~call.hasContent,
                            !.message = IF call.hasContent THEN << >> ELSE NO_CONTENT]
    /\ UNCHANGED << svars, cvars >>

\* handleChatError is called on an error of its own: its classification
CallHandleChatError ==
    /\ call.pc = "none"
    /\ \E message \in ErrorTexts :
         LET c == classifyError(message)
         IN  call' = [NoCall EXCEPT !.fn = "handleChatError", !.pc = "done",
                                    !.message = message, !.errorMessage = c.errorMessage,
                                    !.shouldRetry = c.shouldRetry]
    /\ UNCHANGED << svars, cvars >>

\* the base prompts buildEnhancedSystemPrompt is called on: the empty text,
\* texts on both sides of a multiple of four characters, and the default
PromptTexts ==
    { << >>, Lit("a", 1), Lit("abc", 3), Lit("abcd", 4), Lit("abcde", 5),
      DEFAULT_SYSTEM_PROMPT }

\* buildEnhancedSystemPrompt is called on a base prompt and on the context
\* buildRAGContext makes of a document array
CallBuildEnhancedSystemPrompt ==
    /\ call.pc = "none"
    /\ \E basePrompt \in PromptTexts, ds \in SeqsUpTo(Docs, MaxDocs) :
         LET rag == buildRAGContext([data |-> JArr(ds)])
         IN  call' = [NoCall EXCEPT !.fn = "buildEnhancedSystemPrompt", !.pc = "done",
                                    !.message = basePrompt, !.args = rag,
                                    !.result = buildEnhancedSystemPrompt(basePrompt, rag)]
    /\ UNCHANGED << svars, cvars >>

\* the most lines of a stream that the network may cut anywhere
MaxCutLines == 2

\* processStreamingResponse is called on a stream whose chunks may end
\* anywhere: rest is the decoded text that is still to come
CallProcessStreamingResponseCut ==
    /\ call.pc = "none"
    /\ \E lines \in SeqsUpTo(Lines, MaxCutLines) :
         call' = [NoCall EXCEPT !.fn = "processStreamingResponse, chunks cut anywhere",
                                !.pc = "readingCut",
                                !.lines = lines, !.rest = wholeLines(lines)]
    /\ UNCHANGED << svars, cvars >>

\* reader.read() yields the next k pieces of the text, whole lines or not:
\* one turn of the read loop
ReadCut ==
    /\ call.pc = "readingCut" /\ call.rest # << >>
    /\ \E k \in 1..Len(call.rest) :
         LET acc == processChunk([responseText |-> call.responseText,
                                  hasContent |-> call.hasContent],
                                 SubSeq(call.rest, 1, k))
         IN  call' = [call EXCEPT !.rest = SubSeq(call.rest, k + 1, Len(call.rest)),
                                  !.responseText = acc.responseText,
                                  !.hasContent = acc.hasContent]
    /\ UNCHANGED << svars, cvars >>

\* reader.read() reports done: the empty-stream check of lines 499 to 501
ReadCutDone ==
    /\ call.pc = "readingCut" /\ call.rest = << >>
    /\ call' = [call EXCEPT !.pc = "done", !.threw = ~call.hasContent,
                            !.message = IF call.hasContent THEN << >> ELSE NO_CONTENT]
    /\ UNCHANGED << svars, cvars >>

NextFunctions ==
    \/ CallProcessStreamingResponse
    \/ ReadChunk
    \/ ReadDone
    \/ CallHandleChatError
    \/ CallBuildEnhancedSystemPrompt
    \/ CallProcessStreamingResponseCut
    \/ ReadCut
    \/ ReadCutDone

SpecFunctions == Init /\ [][NextFunctions]_vars

\* ------------------------------------ client: a server that keeps failing
\* the most exchanges of a run in which every request fails
MaxChain == 4

\* how a fetch settles while the server is failing: a retryable status or a
\* status that is not retryable
FailingOutcomes ==
    { FetchResponse(503, Lit("Service Unavailable", 19)),
      FetchResponse(500, Lit("Internal Server Error", 21)) }

\* the click or Enter listener calls sendMessage
ChainSend ==
    /\ Passes => Len(exchanges) < MaxChain
    /\ sendMessage(0)
    /\ UNCHANGED << systemPromptInput, retryAttempts, timers, timerSeq >>
    /\ UNCHANGED << svars, pvars >>

\* the fetch of an exchange resolves with a status that is not ok: the catch
\* block and finally of sendMessage run
ChainFetchFails ==
    /\ \E i \in 1..Len(exchanges) :
         /\ exchanges[i].pc = "awaitFetch"
         /\ \E outcome \in FailingOutcomes :
              LET message == HttpError(outcome.status, outcome.message)
              IN  /\ handleChatError(message, i, chatMessages)
                  /\ Finally(i, "failed", message)
    /\ UNCHANGED << userInput, systemPromptInput, chatHistory, fetchCalls >>
    /\ UNCHANGED << svars, pvars >>

\* the 2000 * retryAttempts ms timer of handleChatError fires: sendMessage is called
ChainResend ==
    /\ Passes => Len(exchanges) < MaxChain
    /\ \E t \in timers :
         /\ t.kind = "resend" /\ Fireable(t)
         /\ timers' = timers \ { t }
         /\ sendMessage(t.exchange)
    /\ UNCHANGED << systemPromptInput, retryAttempts, timerSeq >>
    /\ UNCHANGED << svars, pvars >>

NextChain ==
    \/ TypeInput
    \/ ChainSend
    \/ ChainFetchFails
    \/ NoticeTimerFires
    \/ ChainResend

SpecChain == InitClient /\ [][NextChain]_vars

\* ------------------------------------------ client: the debugging export
\* window.chatDebug.clearChat, called from the console: the history is cut
\* to its first entry and the container to its first message element, the
\* greeting of the page, which is no element of chatMessages here; message
\* elements of exchanges in flight are detached and written no more
clearChat ==
    /\ chatHistory' = SubSeq(chatHistory, 1, 1)
    /\ chatMessages' = << >>
    /\ exchanges' = [i \in 1..Len(exchanges) |-> [exchanges[i] EXCEPT !.el = 0]]
    /\ UNCHANGED << userInput, systemPromptInput, isProcessing, retryAttempts,
                    messageIdCounter, typingIndicator, fetchCalls, timers, timerSeq >>
    /\ UNCHANGED << svars, pvars >>

\* the operations that write chatHistory, with the steps between them (the
\* online and offline listeners do not touch it)
NextDebug ==
    \/ TypeInput
    \/ ManualSend
    \/ FetchSettles
    \/ StreamEnds
    \/ NoticeTimerFires
    \/ ResendTimerFires
    \/ clearChat

SpecDebug == InitClient /\ [][NextDebug]_vars

\* ================================================================ properties
\* Vocabulary of the claims, stated on the request and on the outcomes of the
\* external calls, independently of the handlers above.

ChatPost == request.method = "POST" /\ request.path = "/api/chat"

\* the body was decoded and handed to the validator
Validated == pc # "idle" /\ ChatPost /\ request.body # BadJSON

\* a generation call failed: it threw, or its status is not a 2xx
GenerationFailed(outcome) ==
    outcome.kind = "throw" \/ outcome.status < 200 \/ outcome.status > 299

\* the message of a generation failure
FailureMessage(outcome) ==
    IF outcome.kind = "response"
    THEN Lit("LLM API error: ", 15) \o IntToStr(outcome.status) \o Lit(" ", 1)
            \o outcome.statusText
    ELSE IF outcome.isError THEN outcome.message
    ELSE Lit("Pipeline processing failed", 26)

\* the search call failed: it threw, or its value has no data array
SearchFailed(outcome) ==
    \/ outcome.kind = "throw"
    \/ outcome.value.typeof # "object"
    \/ outcome.value.data.typeof # "array"

\* the base prompt of the request: the client's systemPrompt, else the default
BasePrompt ==
    IF request.body.systemPrompt.typeof = "string" /\ request.body.systemPrompt.val # << >>
    THEN request.body.systemPrompt.val
    ELSE DEFAULT_SYSTEM_PROMPT

\* the client's user and assistant messages, in their original order
RECURSIVE NonSystem(_)
NonSystem(msgs) ==
    IF msgs = << >> THEN << >>
    ELSE IF Head(msgs).role \in {ROLE_USER, ROLE_ASSISTANT}
    THEN << Head(msgs) >> \o NonSystem(Tail(msgs))
    ELSE NonSystem(Tail(msgs))

SystemCount(msgs) == Cardinality({ i \in 1..Len(msgs) : msgs[i].role = ROLE_SYSTEM })

HasHeader(name) == name \in DOMAIN response.headers

StreamedSuccess == pc = "done" /\ response.body.kind = "stream"

PrimarySucceeded == Len(llmResults) = 1 /\ ~GenerationFailed(llmResults[1])
FallbackSucceeded ==
    Len(llmResults) = 2 /\ GenerationFailed(llmResults[1]) /\ ~GenerationFailed(llmResults[2])
BothFailed ==
    Len(llmResults) = 2 /\ GenerationFailed(llmResults[1]) /\ GenerationFailed(llmResults[2])

\* C1: a validated request causes at most two LLM calls: the primary call
\* with the augmented messages and, exactly when the primary call failed
\* (threw or non-ok status), one fallback call with the fallback messages;
\* never a third call, never a fallback after a successful primary call.
C1_AtMostTwoLLMCalls ==
    /\ Len(llmCalls) <= 2
    /\ Len(llmCalls) >= 1 =>
          /\ Validated /\ validation.valid
          /\ llmCalls[1][1].content = JStr(enhancedPrompt.prompt)
    /\ Len(llmCalls) = 2 =>
          /\ Len(llmResults) >= 1 /\ GenerationFailed(llmResults[1])
          /\ llmCalls[2][1].content = JStr(BasePrompt)
    /\ (Len(llmResults) >= 1 /\ GenerationFailed(llmResults[1])) => Len(llmCalls) = 2
    /\ (Len(llmResults) >= 1 /\ ~GenerationFailed(llmResults[1])) =>
          Len(llmCalls) = 1 /\ pc = "done"
    /\ Len(llmResults) <= Len(llmCalls)

C1_Witness == pc = "done" /\ BothFailed /\ llmResults[1].kind = "response"

C3_BothFailGive503 ==
    (pc = "done" /\ BothFailed) =>
        /\ response.status = 503
        /\ response.body.kind = "json"
        /\ response.body.error = Lit("AI model temporarily unavailable. Please try again.", 51)
        /\ StrLen(response.body.error) > 0

C3_Witness ==
    /\ pc = "done" /\ BothFailed
    /\ llmResults[1] # llmResults[2]
    /\ response.status = 503

DiagnosticHeaders ==
    { "X-Processing-Time", "X-RAG-Documents", "X-RAG-Average-Score", "X-Request-ID" }

\* C4: every successful streamed response, from the primary call or from the
\* fallback call, carries the four diagnostic headers X-Processing-Time,
\* X-RAG-Documents, X-RAG-Average-Score and X-Request-ID.
C4_DiagnosticHeadersAlways ==
    StreamedSuccess => DiagnosticHeaders \subseteq DOMAIN response.headers

\* C5: when the search call fails the request does not fail and does not
\* enter the fallback path: the primary call is issued with the base prompt
\* unchanged as its system message, and if it succeeds the response has
\* X-RAG-Documents 0 and no X-Fallback-Used header.
C5_SearchFailureAbsorbed ==
    (Len(searchResults) >= 1 /\ SearchFailed(searchResults[1])) =>
        /\ Len(llmCalls) >= 1
        /\ llmCalls[1][1] = [typeof |-> "object", role |-> ROLE_SYSTEM,
                             content |-> JStr(BasePrompt)]
        /\ Len(llmResults) = 0 =>
              pc = "awaitPrimary" /\ response = NoResponse /\ Len(llmCalls) = 1
        /\ (pc = "done" /\ PrimarySucceeded) =>
              /\ response.status = 200
              /\ response.body.kind = "stream"
              /\ HasHeader("X-RAG-Documents")
              /\ response.headers["X-RAG-Documents"] = Lit("0", 1)
              /\ ~HasHeader("X-Fallback-Used")

C5_Witness ==
    /\ pc = "done" /\ PrimarySucceeded
    /\ searchResults[1].kind = "throw"
    /\ request.body.systemPrompt.typeof = "string" /\ request.body.systemPrompt.val # << >>

EmptyContext ==
    [contextText |-> << >>, documentCount |-> 0, averageScore |-> [num |-> 0, den |-> 1],
     sources |-> << >>, hasContext |-> FALSE]

IsRAGContext(c) ==
    /\ c # JUndef
    /\ DOMAIN c = { "contextText", "documentCount", "averageScore", "sources", "hasContext" }
    /\ c.documentCount \in Nat
    /\ c.hasContext \in BOOLEAN

\* C6: searchAutoRAG never raises: whatever the search call does (throws,
\* null, no data, data not an array, an empty array, documents of any shape)
\* the pipeline goes on with a RAGContext, and after a failure or a response
\* of invalid structure, as for an empty array, that context is the empty one.
C6_SearchNeverRaises ==
    Len(searchResults) >= 1 =>
        /\ IsRAGContext(ragContext)
        /\ Len(llmCalls) >= 1
        /\ processingError # JUndef => Len(llmResults) >= 1
        /\ SearchFailed(searchResults[1]) => ragContext = EmptyContext
        /\ (~SearchFailed(searchResults[1]) /\ searchResults[1].value.data.elems = << >>) =>
              ragContext = EmptyContext

C6_Witness ==
    /\ pc = "awaitPrimary"
    /\ searchResults[1].kind = "value"
    /\ searchResults[1].value.typeof = "object"
    /\ searchResults[1].value.data.typeof = "string"
    /\ ragContext = EmptyContext

\* the rules (a) to (e) of the validator, stated on the decoded body
HasMessages(b) == b.typeof = "object" /\ b.messages.typeof = "array"

RuleA(b) == HasMessages(b) /\ Len(b.messages.elems) > 0

RuleB(b) ==
    /\ HasMessages(b)
    /\ \A i \in 1..Len(b.messages.elems) :
          LET m == b.messages.elems[i]
          IN  /\ m.typeof = "object"
              /\ m.role \in {ROLE_SYSTEM, ROLE_USER, ROLE_ASSISTANT}
              /\ m.content.typeof = "string"

RuleC(b) ==
    /\ HasMessages(b)
    /\ \E i \in 1..Len(b.messages.elems) :
          b.messages.elems[i].typeof = "object" /\ b.messages.elems[i].role = ROLE_USER

RuleD(b) ==
    (b.typeof = "object" /\ b.systemPrompt.typeof = "string") =>
        StrLen(b.systemPrompt.val) <= 10000

RuleE(b) ==
    HasMessages(b) =>
        \A i \in 1..Len(b.messages.elems) :
            LET m == b.messages.elems[i]
            IN  (m.typeof = "object" /\ m.content.typeof = "string") =>
                    StrLen(m.content.val) <= 50000

Acceptable(b) == RuleA(b) /\ RuleB(b) /\ RuleC(b) /\ RuleD(b) /\ RuleE(b)

\* C7: a request that fails validation is answered with HTTP 400 and causes
\* no external call: no search call and no LLM call exists unless the
\* request's body satisfies the validator's rules and was accepted.
C7_NoCallBeforeValidation ==
    /\ (Len(searchCalls) > 0 \/ Len(llmCalls) > 0) =>
          Validated /\ validation.valid /\ Acceptable(request.body)
    /\ (Validated /\ ~Acceptable(request.body)) =>
          /\ pc = "done"
          /\ response.status = 400
          /\ searchCalls = << >> /\ llmCalls = << >>
          /\ searchResults = << >> /\ llmResults = << >>

C7_Witness ==
    /\ Validated /\ ~validation.valid /\ response.status = 400
    /\ RuleA(request.body) /\ RuleB(request.body) /\ RuleC(request.body)
    /\ ~RuleE(request.body)

\* C8: every message list sent to the LLM, primary or fallback, has exactly
\* one system message and it is the first element; the client's system
\* messages are removed and its user and assistant messages follow unchanged
\* in their original order.
C8_OneSystemMessageFirst ==
    \A i \in 1..Len(llmCalls) :
        /\ Len(llmCalls[i]) >= 1
        /\ llmCalls[i][1].role = ROLE_SYSTEM
        /\ SystemCount(llmCalls[i]) = 1
        /\ Tail(llmCalls[i]) = NonSystem(request.body.messages.elems)

C8_Witness ==
    /\ Len(llmCalls) = 2
    /\ SystemCount(request.body.messages.elems) >= 1
    /\ Len(NonSystem(request.body.messages.elems)) >= 1

\* C9: validateChatRequest accepts a decoded body exactly when rules (a) to
\* (e) hold (a systemPrompt of 10,000 characters and a content of 50,000
\* are accepted, 10,001 and 50,001 rejected), and on acceptance
\* sanitizedInput is the body itself.
C9_AcceptsIffRules ==
    Validated =>
        /\ validation.valid <=> Acceptable(request.body)
        /\ validation.valid => validation.sanitizedInput = request.body
        /\ validation.valid => chatRequest = request.body

C9_Witness ==
    /\ Validated /\ validation.valid
    /\ request.body.systemPrompt.typeof = "string"
    /\ StrLen(request.body.systemPrompt.val) = 10000
    /\ \E i \in 1..Len(request.body.messages.elems) :
          StrLen(request.body.messages.elems[i].content.val) = 50000

Contains(errors, e) == \E i \in 1..Len(errors) : errors[i] = e

\* C10: for every rejected body the error list names every violated rule
\* among (a) to (e), not only the first one found, and the response is 400.
\* The structure error is taken to name each of the rules (a), (b) and (c) on
\* the messages; the length rules (d) and (e) have an error of their own.
C10_AllViolationsReported ==
    (Validated /\ ~validation.valid) =>
        /\ response.status = 400
        /\ ~RuleA(request.body) =>
              Contains(validation.errors, E_NO_MESSAGE) \/ Contains(validation.errors, E_STRUCTURE)
        /\ ~RuleB(request.body) => Contains(validation.errors, E_STRUCTURE)
        /\ ~RuleC(request.body) =>
              Contains(validation.errors, E_NO_USER) \/ Contains(validation.errors, E_STRUCTURE)
        /\ ~RuleD(request.body) => Contains(validation.errors, E_PROMPT_LONG)
        /\ ~RuleE(request.body) => Contains(validation.errors, E_CONTENT_LONG)

\* C11: every body without a user-role message (messages missing, not an
\* array, or holding an element of invalid shape included) is rejected with
\* an error list that contains "At least one user message is required",
\* whatever other errors are present.
C11_NoUserMessageReported ==
    (Validated /\ request.body.typeof = "object" /\ ~RuleC(request.body)) =>
        /\ ~validation.valid
        /\ Contains(validation.errors, E_NO_USER)

\* ------------------------------------------------- claims on the client
\* Vocabulary: the steps of the client, read off the state before and after.

\* the content of the last user entry of a list of messages (<< >> if none)
RECURSIVE LastUserContent(_)
LastUserContent(messages) ==
    IF messages = << >> THEN << >>
    ELSE IF messages[Len(messages)].role = ROLE_USER THEN messages[Len(messages)].content
    ELSE LastUserContent(SubSeq(messages, 1, Len(messages) - 1))

\* the retry timer t fires in this step
ResendFires(t) == t \in timers /\ t.kind = "resend" /\ t \notin timers'

\* a request is sent to /api/chat in this step
RequestSent == Len(fetchCalls') = Len(fetchCalls) + 1

\* the stream of exchange i ends in this step with no fragment accumulated
EmptyStreamFails(i) ==
    /\ exchanges[i].pc = "awaitStream"
    /\ exchanges'[i].pc = "done"
    /\ exchanges'[i].error = NO_CONTENT

\* the error message of exchange i is the element this step appends
ErrorShown(i) ==
    /\ Len(chatMessages') = Len(chatMessages) + 1
    /\ chatMessages'[Len(chatMessages')].kind = "error"
    /\ chatMessages'[Len(chatMessages')].exchange = i

\* C12: after a retryable failure with an attempt count below 3, when the
\* retry timer fires a new request is sent to /api/chat whose last user
\* message is the text of the failed exchange, without the user typing again.
C12_RetryResubmitsSameText ==
    [][ \A t \in timers :
          ResendFires(t) =>
              /\ RequestSent
              /\ LastUserContent(fetchCalls'[Len(fetchCalls')].body.messages)
                    = exchanges[t.exchange].message ]_vars

\* C13 as the spec states it: a stream that ends on HTTP 200 with no fragment
\* accumulated triggers one automatic retry, the attempt count is incremented
\* and a resubmission is scheduled.
C13_EmptyStreamRetried ==
    [][ \A i \in 1..Len(exchanges) :
          (EmptyStreamFails(i) /\ retryAttempts < maxRetryAttempts) =>
              /\ retryAttempts' = retryAttempts + 1
              /\ \E t \in timers' \ timers : t.kind = "resend" /\ t.exchange = i ]_vars

\* C13 amended: a stream that ends on HTTP 200 with no fragment accumulated
\* fails with "No response content received", which the error handler puts in
\* the generic category: the generic message is shown, no retry is scheduled
\* and the attempt count is set to 0.
C13_EmptyStreamNotRetried ==
    [][ \A i \in 1..Len(exchanges) :
          EmptyStreamFails(i) =>
              /\ ErrorShown(i)
              /\ chatMessages'[Len(chatMessages')].content = ERROR_MESSAGES.UNKNOWN_ERROR
              /\ timers' = timers
              /\ retryAttempts' = 0 ]_vars

C13_Witness ==
    \E i \in 1..Len(exchanges) :
        /\ exchanges[i].pc = "done" /\ exchanges[i].error = NO_CONTENT
        /\ chatMessages[Len(chatMessages)].kind = "error"
        /\ timers = {}

\* C14: a resubmission by the retry controller sends the body of the failed
\* attempt again: the same messages, systemPrompt and ragSettings, with no
\* user message added a second time.
C14_RetryBodyIdentical ==
    [][ \A t \in timers :
          (ResendFires(t) /\ RequestSent) =>
              fetchCalls'[Len(fetchCalls')].body = fetchCalls[t.exchange].body ]_vars

\* the five texts handleChatError can show
ErrorTextsShown ==
    { ERROR_MESSAGES.LLM_FAILURE, ERROR_MESSAGES.RATE_LIMITED, ERROR_MESSAGES.NETWORK_ERROR,
      ERROR_MESSAGES.TIMEOUT, ERROR_MESSAGES.UNKNOWN_ERROR }

\* C15: handleChatError classifies a failure from its message text alone, by
\* the first rule that matches, in this order: "HTTP 503" or "HTTP 502" gives
\* upstream unavailable, retryable; "HTTP 429" rate limited, retryable;
\* "NetworkError" or "Failed to fetch" network failure, retryable; "timeout"
\* timeout, not retryable; anything else (HTTP 400 and HTTP 500 included) the
\* generic category, not retryable. The text shown is one of five fixed texts.
C15_ClassifiedByFirstMatch ==
    (call.fn = "handleChatError" /\ call.pc = "done") =>
        LET m == call.message
            upstream == includes(m, HttpStatus(503)) \/ includes(m, HttpStatus(502))
            rateLimited == includes(m, HttpStatus(429))
            network == includes(m, NETWORK_ERROR_NAME) \/ includes(m, FAILED_TO_FETCH)
            timeout == includes(m, TIMEOUT_WORD)
            shown == call.errorMessage
            retryable == call.shouldRetry
        IN  /\ upstream => (shown = ERROR_MESSAGES.LLM_FAILURE /\ retryable)
            /\ (~upstream /\ rateLimited) => (shown = ERROR_MESSAGES.RATE_LIMITED /\ retryable)
            /\ (~upstream /\ ~rateLimited /\ network) =>
                  (shown = ERROR_MESSAGES.NETWORK_ERROR /\ retryable)
            /\ (~upstream /\ ~rateLimited /\ ~network /\ timeout) =>
                  (shown = ERROR_MESSAGES.TIMEOUT /\ ~retryable)
            /\ (~upstream /\ ~rateLimited /\ ~network /\ ~timeout) =>
                  (shown = ERROR_MESSAGES.UNKNOWN_ERROR /\ ~retryable)
            /\ shown \in ErrorTextsShown

C15_Witness ==
    /\ call.fn = "handleChatError" /\ call.pc = "done"
    /\ includes(call.message, TIMEOUT_WORD) /\ includes(call.message, HttpStatus(503))
    /\ call.shouldRetry

\* the retry chain has ended: no timer is pending and no exchange is under way
RetryChainEnded ==
    /\ timers = {}
    /\ \A i \in 1..Len(exchanges) : exchanges[i].pc = "done"

\* C16: the attempt count is back at 0 once a retry chain has ended (after a
\* success, and after a retryable failure with the count at 3), so that the
\* next message sent by hand starts with a count of 0.
C16_FreshBudgetAfterChain == RetryChainEnded => retryAttempts = 0

\* the exchanges in flight: sendMessage has passed its guard and not returned
InFlight == { i \in 1..Len(exchanges) : exchanges[i].pc # "done" }

\* C17: at most one exchange is in flight in every reachable state, under
\* every interleaving of sends by hand, retry timers and online and offline
\* events.
C17_AtMostOneInFlight == Cardinality(InFlight) <= 1

\* the error messages of exchange i in the chat-messages container
ErrorEls(i) ==
    { k \in 1..Len(chatMessages) :
        chatMessages[k].kind = "error" /\ chatMessages[k].exchange = i }

\* C18: every failed exchange adds exactly one error message to the visible
\* conversation, one of the conversational texts, and it stands before every
\* retry notice and before every resubmission made for that failure.
C18_OneErrorMessagePerFailure ==
    \A i \in 1..Len(exchanges) :
        /\ Cardinality(ErrorEls(i)) = IF exchanges[i].result = "failed" THEN 1 ELSE 0
        /\ \A k \in ErrorEls(i) : chatMessages[k].content \in ErrorTextsShown
        /\ \A t \in timers : t.exchange = i => ErrorEls(i) # {}
        /\ \A k \in 1..Len(chatMessages) :
              (chatMessages[k].kind = "notice" /\ chatMessages[k].exchange = i) =>
                  \E e \in ErrorEls(i) : e < k
        /\ \A j \in 1..Len(exchanges) :
              exchanges[j].retryOf = i => \E e \in ErrorEls(i) : e < exchanges[j].el - 1

C18_Witness ==
    \E i, j \in 1..Len(exchanges) :
        /\ exchanges[j].retryOf = i
        /\ exchanges[i].result = "failed"
        /\ \E k \in 1..Len(chatMessages) :
              chatMessages[k].kind = "notice" /\ chatMessages[k].exchange = i

\* what one line adds to the text, as the claim words it: nothing for a
\* blank line or a ":" line; the response field of a line that parses as JSON
\* once a leading "data: " is stripped; the raw text of a line that fails to
\* parse and does not start with "data:"
Contribution(line) ==
    LET blank == \A k \in 1..Len(line) : line[k].tag \in Whitespace
        payload == IF startsWith(line, DATA \o SP) THEN substring(line, 6) ELSE line
        parsed == JSONparse(payload)
    IN  IF blank \/ startsWith(line, COLON) THEN << >>
        ELSE IF parsed.ok
        THEN IF parsed.response.typeof = "string" THEN parsed.response.val ELSE << >>
        ELSE IF startsWith(line, DATA) THEN << >>
        ELSE line

RECURSIVE ExpectedText(_)
ExpectedText(lines) ==
    IF lines = << >> THEN << >>
    ELSE Contribution(Head(lines)) \o ExpectedText(Tail(lines))

HiThere == << DataLine(Lit("Hi", 2)), DataLine(SP \o Lit("there", 5)), << >> >>

StreamEndsFor(i) == exchanges[i].pc = "awaitStream" /\ exchanges'[i].pc = "done"

\* the text the stream of exchange i had accumulated when it ended
TextOf(i) == chatMessages'[exchanges[i].el].content

\* C20 as the spec states it: a stream that ends with no fragment accumulated
\* fails the exchange although the status was a success: an error message is
\* shown, the attempt count is left as it was, and no assistant entry is added
\* to the chat history.
C20_EmptyStreamKeepsCount ==
    [][ \A i \in 1..Len(exchanges) :
          EmptyStreamFails(i) =>
              /\ ErrorShown(i)
              /\ retryAttempts' = retryAttempts
              /\ chatHistory' = chatHistory ]_vars

\* C20 amended: a stream that ends with no fragment accumulated fails the
\* exchange although the status was a success: an error message is shown, no
\* assistant entry is added to the chat history, and the attempt count is set
\* to 0 by the error handler. A stream that ends normally with at least one
\* fragment never raises this error: its text is added as an assistant entry.
C20_EmptyStreamFailsExchange ==
    [][ \A i \in 1..Len(exchanges) :
          StreamEndsFor(i) =>
              /\ EmptyStreamFails(i) =>
                    /\ TextOf(i) = << >>
                    /\ exchanges'[i].result = "failed"
                    /\ ErrorShown(i)
                    /\ chatHistory' = chatHistory
                    /\ retryAttempts' = 0
              /\ TextOf(i) # << >> => exchanges'[i].error # NO_CONTENT
              /\ exchanges'[i].result = "success" <=>
                    (TextOf(i) # << >> /\ exchanges'[i].error = << >>)
              /\ exchanges'[i].result = "success" =>
                    chatHistory' = Append(chatHistory,
                                          HistoryEntry(ROLE_ASSISTANT, TextOf(i)))
              /\ exchanges'[i].result = "failed" => chatHistory' = chatHistory ]_vars

C20_Witness ==
    /\ \E i \in 1..Len(exchanges) :
          /\ exchanges[i].pc = "done" /\ exchanges[i].error = NO_CONTENT
          /\ chatMessages[exchanges[i].el].content = << >>
          /\ \E j \in 1..(i - 1) : exchanges[j].result = "failed" /\ exchanges[j].pc = "done"
    /\ retryAttempts = 0
    /\ \A k \in 1..Len(chatHistory) : k > 1 => chatHistory[k].role = ROLE_USER

\* ------------------------------------------------ retrieval-context claims
\* the search call returned a data array, so buildRAGContext built the context
Retrieved == Len(searchResults) >= 1 /\ ~SearchFailed(searchResults[1])

\* the raw response array
Documents == searchResults[1].value.data.elems

\* the text items of a shape-valid document hold a character that is not
\* white space
HasText(doc) ==
    \E i \in 1..Len(doc.content.elems) :
        /\ doc.content.elems[i].type = TEXT
        /\ \E j \in 1..Len(doc.content.elems[i].text.val) :
              doc.content.elems[i].text.val[j].tag \notin Whitespace

\* the document is used: it passes the shape check and has text
Kept(doc) == isSearchResult(doc) /\ HasText(doc)

\* positions of the used documents, in response order
RECURSIVE KeptPositions(_, _)
KeptPositions(docs, i) ==
    IF i > Len(docs) THEN << >>
    ELSE IF Kept(docs[i]) THEN << i >> \o KeptPositions(docs, i + 1)
    ELSE KeptPositions(docs, i + 1)

\* a document was skipped
SomeSkipped == \E i \in 1..Len(Documents) : ~Kept(Documents[i])

\* C21: every RAGContext produced by the retrieval step has documentCount
\* equal to the number of its sources, also for responses holding
\* shape-invalid documents or documents whose text is empty.
C21_CountEqualsSources ==
    Len(searchResults) >= 1 => ragContext.documentCount = Len(ragContext.sources)

\* the chunks of s whose tag passes the test, in order
Chunks(s, Test(_)) == SelectSeq(s, LAMBDA c : Test(c.tag))

FileTags == { "f1", "f2", "f3" }
IsFileTag(t) == t \in FileTags
IsBlockStart(t) == t = "[Document "
IsTextTag(t) == t \in { "T1", "T2", "T3" }

\* all text of a document's text items, item after item
RECURSIVE ItemsText(_)
ItemsText(items) ==
    IF items = << >> THEN << >>
    ELSE (IF Head(items).type = TEXT THEN Head(items).text.val ELSE << >>)
            \o ItemsText(Tail(items))

\* file names, and visible text, of the used documents in response order
RECURSIVE KeptFilenames(_)
KeptFilenames(positions) ==
    IF positions = << >> THEN << >>
    ELSE Documents[Head(positions)].filename.val \o KeptFilenames(Tail(positions))

RECURSIVE KeptTexts(_)
KeptTexts(positions) ==
    IF positions = << >> THEN << >>
    ELSE Chunks(ItemsText(Documents[Head(positions)].content.elems), IsTextTag)
            \o KeptTexts(Tail(positions))

\* C22: documentCount is the length of the raw response array, while
\* sources and contextText hold exactly one entry or block, in response
\* order, for each document that passes the shape check and has non-empty
\* trimmed text; the other documents are skipped and the request goes on
\* to the primary generation call.
C22_CountRawSourcesKept ==
    Retrieved =>
        LET kept == KeptPositions(Documents, 1)
        IN  /\ ragContext.documentCount = Len(Documents)
            /\ Len(ragContext.sources) = Len(kept)
            /\ \A k \in 1..Len(kept) :
                  /\ k <= Len(ragContext.sources)
                  /\ ragContext.sources[k].filename = Documents[kept[k]].filename.val
                  /\ ragContext.sources[k].score = Documents[kept[k]].score.val
            /\ Len(Chunks(ragContext.contextText, IsBlockStart)) = Len(kept)
            /\ Chunks(ragContext.contextText, IsFileTag) = KeptFilenames(kept)
            /\ Chunks(ragContext.contextText, IsTextTag) = KeptTexts(kept)
            /\ Len(llmCalls) >= 1
            /\ Len(llmResults) = 0 => pc = "awaitPrimary" /\ processingError = JUndef
            /\ PrimarySucceeded => response.status = 200 /\ ~HasHeader("X-Fallback-Used")

\* a shape-invalid document is skipped, the one after it is used, and the
\* request succeeds
C22_Witness ==
    /\ Retrieved /\ pc = "done" /\ PrimarySucceeded
    /\ Len(Documents) = 2
    /\ ~isSearchResult(Documents[1])
    /\ Kept(Documents[2])
    /\ ragContext.documentCount = 2
    /\ Len(ragContext.sources) = 1

\* sum of the scores (hundredths) of the shape-valid documents
RECURSIVE ShapeValidScoreSum(_)
ShapeValidScoreSum(docs) ==
    IF docs = << >> THEN 0
    ELSE (IF isSearchResult(Head(docs)) THEN Head(docs).score.val ELSE 0)
            + ShapeValidScoreSum(Tail(docs))

\* averageScore is the quotient sum / count
AverageIs(sum, count) ==
    ragContext.averageScore.num * count = sum * ragContext.averageScore.den

\* C23: averageScore is the sum of the scores of all shape-valid documents
\* of the response, those whose text is empty included, divided by the raw
\* document count.
C23_AverageOverShapeValid ==
    (Retrieved /\ Len(Documents) > 0) =>
        AverageIs(ShapeValidScoreSum(Documents), Len(Documents))

\* C24: averageScore is the arithmetic mean of the scores of the returned
\* documents, and 0 when there are none; scores 0.8 and 0.4 give 0.6, a
\* documentCount of 2 and the summary "Found 2 relevant documents (avg.
\* relevance: 0.60)".
C24_AverageIsMean ==
    Len(searchResults) >= 1 =>
        /\ (~Retrieved \/ Len(Documents) = 0) => ragContext.averageScore.num = 0
        /\ (Retrieved /\ Len(Documents) > 0
              /\ \A i \in 1..Len(Documents) : isSearchResult(Documents[i])) =>
                 AverageIs(ShapeValidScoreSum(Documents), Len(Documents))
        /\ (Retrieved /\ Len(Documents) = 2
              /\ isSearchResult(Documents[1]) /\ isSearchResult(Documents[2])
              /\ { Documents[j].score.val : j \in 1..2 } = { 80, 40 }) =>
                 /\ ragContext.documentCount = 2
                 /\ AverageIs(60, 1)
                 /\ ragContext.hasContext =>
                      enhancedPrompt.contextSummary =
                          Lit("Found ", 6) \o Lit("2", 1)
                            \o Lit(" relevant documents (avg. relevance: ", 37)
                            \o Lit("0", 1) \o Lit(".", 1) \o Lit("6", 1) \o Lit("0", 1)
                            \o Lit(")", 1)

\* C25: every RAGContext produced by the retrieval step whose documentCount
\* is 0 has hasContext false and averageScore 0.
C25_NoDocumentsNoContext ==
    (Len(searchResults) >= 1 /\ ragContext.documentCount = 0) =>
        /\ ragContext.hasContext = FALSE
        /\ ragContext.averageScore.num = 0
        /\ ragContext.averageScore.den # 0

\* the search returned an empty array
C25_Witness ==
    /\ Retrieved /\ Documents = << >>
    /\ ragContext.documentCount = 0
    /\ pc = "awaitPrimary"

\* C26: hasContext holds exactly when contextText is non-empty; when the
\* response has documents and every one of them was skipped, documentCount
\* is greater than 0 and hasContext is false.
C26_HasContextIffText ==
    Len(searchResults) >= 1 =>
        /\ ragContext.hasContext <=> StrLen(ragContext.contextText) > 0
        /\ (Retrieved /\ Len(Documents) > 0
              /\ \A i \in 1..Len(Documents) : ~Kept(Documents[i])) =>
                 ragContext.documentCount > 0 /\ ~ragContext.hasContext
        /\ (Retrieved /\ \E i \in 1..Len(Documents) : Kept(Documents[i])) =>
                 ragContext.hasContext

\* two documents, both skipped
C26_Witness ==
    /\ Retrieved /\ Len(Documents) = 2
    /\ ~Kept(Documents[1]) /\ ~Kept(Documents[2])
    /\ isSearchResult(Documents[2])
    /\ ragContext.documentCount = 2
    /\ ~ragContext.hasContext
    /\ pc = "done"

\* ------------------------------------------------- prompt-augmenter claims
\* the summary line of a context: its count and its average with two decimals
ExpectedSummary ==
    Lit("Found ", 6) \o IntToStr(ragContext.documentCount)
      \o Lit(" relevant documents (avg. relevance: ", 37)
      \o toFixed(ragContext.averageScore.num, ragContext.averageScore.den, 2)
      \o Lit(")", 1)

\* the part of the prompt behind its first n chunks
After(s, n) == SubSeq(s, n + 1, Len(s))

IsBullet(t) ==
    t \in { "\\n- When the knowledge base context is relevant",
            "\\n- Reference specific documents",
            "\\n- If the knowledge base doesn't contain relevant information",
            "\\n- Be clear about when you're using knowledge base information",
            "\\n- Provide accurate and helpful responses" }

\* C27: for a RAGContext with hasContext true the augmented prompt begins
\* with the literal base prompt, goes on with the knowledge-base block that
\* holds the summary "Found {documentCount} relevant documents (avg.
\* relevance: {averageScore})" and the whole contextText, and ends with
\* exactly five fixed instruction bullets; hasRAGContext is true.
C27_AugmentedPromptLayout ==
    (Len(searchResults) >= 1 /\ ragContext.hasContext) =>
        LET prompt == enhancedPrompt.prompt
            block == KB_HEADER \o ExpectedSummary \o Lit(":\\n\\n", 3)
                        \o ragContext.contextText
            tail == After(prompt, Len(BasePrompt) + Len(block))
        IN  /\ enhancedPrompt.hasRAGContext = TRUE
            /\ enhancedPrompt.contextSummary = ExpectedSummary
            /\ Len(prompt) >= Len(BasePrompt) + Len(block)
            /\ SubSeq(prompt, 1, Len(BasePrompt)) = BasePrompt
            /\ SubSeq(prompt, Len(BasePrompt) + 1, Len(BasePrompt) + Len(block)) = block
            /\ Len(tail) = 6
            /\ tail[1] = [tag |-> "\\n\\nINSTRUCTIONS:", len |-> 15]
            /\ \A k \in 2..6 : IsBullet(tail[k].tag)
            /\ Cardinality({ tail[k] : k \in 2..6 }) = 5
            /\ Len(Chunks(prompt, IsBullet)) = 5
            /\ llmCalls[1][1].content = JStr(prompt)

\* a client prompt is augmented with one used document out of two
C27_Witness ==
    /\ pc = "awaitPrimary"
    /\ Retrieved /\ Len(Documents) = 2 /\ SomeSkipped
    /\ ragContext.hasContext
    /\ request.body.systemPrompt.typeof = "string"
    /\ request.body.systemPrompt.val # << >>
    /\ enhancedPrompt.hasRAGContext

\* C28: for a RAGContext with hasContext false buildEnhancedSystemPrompt
\* returns the base prompt unchanged, hasRAGContext false and the fixed
\* no-relevant-documents summary; hasRAGContext always equals hasContext.
C28_NoContextPromptUnchanged ==
    Len(searchResults) >= 1 =>
        /\ enhancedPrompt.hasRAGContext = ragContext.hasContext
        /\ ~ragContext.hasContext =>
              /\ enhancedPrompt.prompt = BasePrompt
              /\ enhancedPrompt.hasRAGContext = FALSE
              /\ enhancedPrompt.contextSummary =
                    Lit("No relevant documents found in knowledge base", 45)
              /\ llmCalls[1][1].content = JStr(BasePrompt)

\* documents came back, none was used, and the client's prompt goes out as
\* it came in
C28_Witness ==
    /\ pc = "awaitPrimary"
    /\ Retrieved /\ Len(Documents) > 0
    /\ ~ragContext.hasContext
    /\ request.body.systemPrompt.typeof = "string"
    /\ request.body.systemPrompt.val # << >>
    /\ enhancedPrompt.prompt = request.body.systemPrompt.val

\* C29: the tokenEstimate of every EnhancedSystemPrompt is the ceiling of the
\* prompt's length in characters divided by 4: the least whole number t with
\* 4 * t >= length; the empty prompt gives 0.
C29_TokenEstimateIsCeiling ==
    (call.fn = "buildEnhancedSystemPrompt" /\ call.pc = "done") =>
        LET n == StrLen(call.result.prompt)
            t == call.result.tokenEstimate
        IN  /\ t \in Nat
            /\ 4 * t >= n
            /\ 4 * (t - 1) < n
            /\ n = 0 => t = 0
            /\ ~call.args.hasContext => n = StrLen(call.message)

\* the empty base prompt without context: an empty prompt
C29_Witness ==
    /\ call.fn = "buildEnhancedSystemPrompt" /\ call.pc = "done"
    /\ call.message = << >>
    /\ call.result.prompt = << >>
    /\ call.result.tokenEstimate = 0

\* ------------------------------------------------------------ CORS claims
\* the response was constructed by the worker: every response but the one
\* env.ASSETS.fetch hands back for a static asset
WorkerResponse == pc = "done" /\ response.body.kind # "asset"

HeaderIs(name, value) == HasHeader(name) /\ response.headers[name] = value

\* C30: every response constructed by the worker carries the three CORS
\* headers Access-Control-Allow-Origin: *, Access-Control-Allow-Methods:
\* GET, POST, OPTIONS and Access-Control-Allow-Headers: Content-Type: the
\* OPTIONS preflight response, the 400, 404, 405, 500 and 503 error
\* responses and the primary and fallback streamed success responses.
C30_CORSOnEveryResponse ==
    WorkerResponse =>
        /\ HeaderIs("Access-Control-Allow-Origin", Lit("*", 1))
        /\ HeaderIs("Access-Control-Allow-Methods", Lit("GET, POST, OPTIONS", 18))
        /\ HeaderIs("Access-Control-Allow-Headers", Lit("Content-Type", 12))
        /\ \/ request.method = "OPTIONS" /\ response.status = 200
           \/ response.status \in { 400, 404, 405, 500, 503 }
                 /\ response.body.kind = "json"
           \/ response.status = 200 /\ response.body.kind = "stream"
                 /\ (PrimarySucceeded \/ FallbackSucceeded)

\* both generation calls failed: the 503 error response
C30_Witness ==
    /\ WorkerResponse /\ BothFailed
    /\ response.status = 503
    /\ HasHeader("Access-Control-Allow-Origin")

\* ------------------------------------------------------- routing claims
ApiPath == request.path \in { "/api/chat", "/api/other" }

\* the request was handed to env.ASSETS.fetch
Delegated == pc = "done" /\ response.body.kind = "asset"

\* the request entered handleChatRequest
InPipeline ==
    \/ pc \in { "awaitSearch", "awaitPrimary", "awaitFallback" }
    \/ pc = "done" /\ response.status \in { 200, 400, 500, 503 }
         /\ response.body.kind \in { "json", "stream" }

NoExternalCall == searchCalls = << >> /\ llmCalls = << >>

\* C31: the fetch handler routes by method and path in this order: OPTIONS
\* on any path gets 200 with the CORS headers and no body; otherwise a path
\* that is / or does not start with /api/ goes to the static assets whatever
\* the method; otherwise /api/chat runs the chat pipeline for POST and gets
\* 405 for any other method; every other /api/ path gets 404.
C31_RoutingPrecedence ==
    pc # "idle" =>
        IF request.method = "OPTIONS"
        THEN /\ pc = "done" /\ response.status = 200
             /\ response.body.kind = "none"
             /\ DOMAIN response.headers =
                    { "Access-Control-Allow-Origin", "Access-Control-Allow-Methods",
                      "Access-Control-Allow-Headers" }
             /\ NoExternalCall
        ELSE IF request.path = "/" \/ ~ApiPath
        THEN Delegated /\ NoExternalCall
        ELSE IF request.path = "/api/chat"
        THEN IF request.method = "POST"
             THEN InPipeline
             ELSE /\ pc = "done" /\ response.status = 405
                  /\ response.body.kind = "json" /\ NoExternalCall
        ELSE /\ pc = "done" /\ response.status = 404
             /\ response.body.kind = "json" /\ NoExternalCall

\* a preflight request on the chat route is answered before the route is
\* looked at
C31_Witness ==
    /\ pc = "done"
    /\ request.method = "OPTIONS" /\ request.path = "/api/chat"
    /\ response.status = 200 /\ response.body.kind = "none"

\* ------------------------------------------------- error-handling claims
ValidationFailed == request.body # BadJSON /\ ~Acceptable(request.body)

ErrorStatus == { 400, 404, 405, 500, 503 }

Fires(t) == t \in timers /\ t \notin timers'

\* the timer is set in this step
Scheduled(t) == t \notin timers /\ t \in timers'

\* the resend timer set by the same failure as the notice timer n
ResendOf(n) == CHOOSE r \in timers : r.kind = "resend" /\ r.seq = n.seq

\* the text of a notice for the given attempt
NoticeText(attempt) ==
    Lit("Retrying... (attempt ", 21) \o IntToStr(attempt) \o Lit(" of ", 4)
      \o Lit("3", 1) \o Lit(")", 1)

\* C33: for every scheduled retry the "Retrying" notice, due 1 second after
\* the failure, is shown before the resubmission happens; the resubmission
\* delay is 2000 ms times the attempt count after its increment (2000, 4000,
\* 6000 ms); and the attempt number in the notice is the attempt count that
\* was assigned when the retry was scheduled.
C33_NoticeShowsScheduledAttempt ==
    [][ /\ \A t \in timers' : Scheduled(t) =>
              /\ retryAttempts' = retryAttempts + 1
              /\ t.kind = "notice" => t.delay = 1000
              /\ t.kind = "resend" =>
                    t.delay = 2000 * retryAttempts' /\ t.delay \in { 2000, 4000, 6000 }
              /\ \E n, r \in timers' :
                    /\ Scheduled(n) /\ Scheduled(r) /\ n.seq = t.seq /\ r.seq = t.seq
                    /\ n.kind = "notice" /\ r.kind = "resend"
        /\ \A t \in timers : Fires(t) =>
              /\ t.kind = "resend" =>
                    ~\E n \in timers : n.kind = "notice" /\ n.seq = t.seq
              /\ t.kind = "notice" =>
                    /\ \E r \in timers' : r.kind = "resend" /\ r.seq = t.seq
                    /\ Len(chatMessages') = Len(chatMessages) + 1
                    /\ chatMessages'[Len(chatMessages')].content =
                          NoticeText(ResendOf(t).delay \div 2000) ]_vars

\* exchange i fails in this step with HTTP 503, a retryable error
FailsRetryably(i) ==
    /\ exchanges[i].pc # "done"
    /\ exchanges'[i].pc = "done"
    /\ exchanges'[i].error = HttpError(503, Lit("Service Unavailable", 19))

ResendTimers(ts) == { t \in ts : t.kind = "resend" }

\* C34: the attempt count stays within 0..3, and a chain of consecutive
\* retryable failures causes at most 3 automatic resubmissions: a retry
\* timer is set only by a failure that raises the count by one from below 3,
\* and a retryable failure with the count at 3 sets no timer and puts the
\* count back to 0, so automatic retrying stops.
C34_RetryBudgetBounded ==
    [][ /\ retryAttempts \in 0..3 /\ retryAttempts' \in 0..3
        /\ Cardinality(ResendTimers(timers') \ ResendTimers(timers)) <= 1
        /\ \A t \in timers' : Scheduled(t) =>
              /\ retryAttempts < 3
              /\ retryAttempts' = retryAttempts + 1
              /\ t.exchange \in 1..Len(exchanges) /\ FailsRetryably(t.exchange)
        /\ \A i \in 1..Len(exchanges) : FailsRetryably(i) =>
              IF retryAttempts = 3
              THEN timers' = timers /\ retryAttempts' = 0
              ELSE \E t \in timers' : Scheduled(t) /\ t.kind = "resend" /\ t.exchange = i
      ]_vars

\* three automatic resubmissions after a send by hand, all four requests
\* answered with HTTP 503: the count is back at 0 and no retry is pending
C34_Witness ==
    /\ Len(exchanges) = 4
    /\ \A i \in 1..4 :
          /\ exchanges[i].pc = "done"
          /\ exchanges[i].error = HttpError(503, Lit("Service Unavailable", 19))
    /\ exchanges[1].retryOf = 0
    /\ \A i \in 2..4 : exchanges[i].retryOf = i - 1
    /\ ResendTimers(timers) = {}
    /\ retryAttempts = 0

\* ------------------------------------------------------- history claims
IsPrefix(a, b) == Len(a) <= Len(b) /\ SubSeq(b, 1, Len(a)) = a

GreetingFirst(history) ==
    Len(history) >= 1 /\ history[1] = HistoryEntry(ROLE_ASSISTANT, GREETING)

\* C35 as the spec states it: the chat history is append-only; no client
\* operation removes, reorders or rewrites an entry, so the greeting stays
\* the first entry and every earlier history is a prefix of every later one.
C35_HistoryAppendOnly ==
    [][ GreetingFirst(chatHistory') /\ IsPrefix(chatHistory, chatHistory') ]_vars

\* C35, amended: sending and the end of a stream only append to the history,
\* one entry at a time; the one operation that removes entries is
\* chatDebug.clearChat, which cuts the history to its first entry, the
\* greeting, and touches no exchange; the greeting is the first entry always.
C35_AppendOnlyButClearChat ==
    [][ /\ GreetingFirst(chatHistory')
        /\ \/ /\ IsPrefix(chatHistory, chatHistory')
              /\ Len(chatHistory') <= Len(chatHistory) + 1
           \/ /\ chatHistory' = << chatHistory[1] >>
              /\ chatMessages' = << >>
              /\ fetchCalls' = fetchCalls
              /\ isProcessing' = isProcessing
              /\ \A i \in 1..Len(exchanges) : exchanges'[i].pc = exchanges[i].pc
      ]_vars

\* the history was cut after an exchange had put a question and an answer
\* on it, and the next request was sent with the greeting and the new
\* question only
C35_Witness ==
    /\ Len(fetchCalls) = 2
    /\ exchanges[1].result = "success"
    /\ Len(fetchCalls[2].body.messages) = 2
    /\ Len(chatHistory) = 2

\* ------------------------------------------------------ chunking claims
\* what the reader accumulates when the whole stream comes as one chunk
InOneChunk(lines) == processChunk(NoText, wholeLines(lines))

\* C36: the text the stream reader accumulates depends on the decoded text
\* of the stream only, not on where the network cuts it into chunks: every
\* chunking, one that cuts a "data: {...}" line in the middle included,
\* gives the text and the success or empty outcome of the stream read as
\* one chunk.
C36_ChunkingIrrelevant ==
    (call.fn = "processStreamingResponse, chunks cut anywhere" /\ call.pc = "done") =>
        /\ call.responseText = InOneChunk(call.lines).responseText
        /\ call.hasContent = InOneChunk(call.lines).hasContent
        /\ call.threw = ~InOneChunk(call.lines).hasContent

\* ------------------------------------------------- the gate and its release
\* the gate is released in this step
GateReleased == isProcessing /\ ~isProcessing'

\* the sendMessage call of exchange i reaches its finally block in this step
Ends(i) == exchanges[i].pc # "done" /\ exchanges'[i].pc = "done"

\* the gate is always released in the end
C37_GateEventuallyReleased == isProcessing ~> ~isProcessing

\* the gate is released by the finally block of an exchange only, after its
\* error handler has run: a failure has shown its error message, and a
\* retryable failure within the budget has set its resend timer
C37_ReleasedAfterErrorHandler ==
    [][ GateReleased =>
          \E i \in 1..Len(exchanges) :
             /\ Ends(i)
             /\ exchanges'[i].result = "failed" =>
                   /\ Len(chatMessages') = Len(chatMessages) + 1
                   /\ chatMessages'[Len(chatMessages')].kind = "error"
                   /\ (classifyError(exchanges'[i].error).shouldRetry
                         /\ retryAttempts < maxRetryAttempts) =>
                         \E t \in timers' :
                            Scheduled(t) /\ t.kind = "resend" /\ t.exchange = i
      ]_vars

\* C37: after every send that passes the gate, isProcessing returns to false
\* in the end (the input is enabled again with it), whether the exchange
\* succeeds or fails, retryably or not, provided the fetch and the stream
\* reads settle; and the gate is released only after the error handler has
\* run, so a retry timer is set before the gate reopens.
C37_GateReleasedInTheEndAndInOrder ==
    C37_GateEventuallyReleased /\ C37_ReleasedAfterErrorHandler

\* --------------------------------------- the chat history, entry by entry
\* a sendMessage call passes the gate in this step: a new exchange starts
Sends == Len(exchanges') = Len(exchanges) + 1

\* the read loop of exchange i ends in this step and no read was rejected
EndsNormally(i) ==
    /\ StreamEndsFor(i)
    /\ exchanges'[i].error \notin (ReadErrors \ { << >> })

IsUserEntry(e) == e.role = ROLE_USER

\* C38: each send that passes the gate appends exactly one user entry to the
\* chat history, and the request it sends carries that history; the exchange
\* appends an assistant entry if and only if its stream ended normally with
\* text accumulated; an exchange that fails (HTTP error, fetch rejection,
\* stream read error, empty stream) appends no assistant entry and leaves
\* its user entry in place; nothing else changes the history.
C38_OneUserEntryPerSend ==
    [][ /\ Sends =>
              /\ chatHistory' = Append(chatHistory,
                                       HistoryEntry(ROLE_USER, exchanges'[Len(exchanges')].message))
              /\ Len(fetchCalls') = Len(fetchCalls) + 1
              /\ fetchCalls'[Len(fetchCalls')].exchange = Len(exchanges')
              /\ fetchCalls'[Len(fetchCalls')].body.messages = chatHistory'
        /\ \A i \in 1..Len(exchanges) :
              Ends(i) =>
                 /\ IF EndsNormally(i) /\ TextOf(i) # << >>
                    THEN chatHistory' = Append(chatHistory,
                                               HistoryEntry(ROLE_ASSISTANT, TextOf(i)))
                    ELSE chatHistory' = chatHistory
                 /\ exchanges'[i].result = "failed" => chatHistory' = chatHistory
        /\ (~Sends /\ \A i \in 1..Len(exchanges) : ~Ends(i)) => chatHistory' = chatHistory
      ]_vars

\* a request is sent whose history holds two user entries in a row, the
\* first one left by an exchange that failed
C38_Witness ==
    \E c \in 1..Len(fetchCalls) :
       LET messages == fetchCalls[c].body.messages
       IN  /\ \E j \in 1..(Len(messages) - 1) :
                IsUserEntry(messages[j]) /\ IsUserEntry(messages[j + 1])
           /\ \E i \in 1..(fetchCalls[c].exchange - 1) :
                exchanges[i].pc = "done" /\ exchanges[i].result = "failed"
           /\ \E k \in 1..Len(exchanges) :
                exchanges[k].result = "success" /\ chatHistory[Len(chatHistory)].role = ROLE_ASSISTANT

\* ------------------------------------------------- the search call's inputs
\* the request passed validation: its RequestContext exists
ContextCreated == context # JUndef

\* the messages of the validated request
ValidatedMessages == chatRequest.messages.elems

\* the position of the last message whose role is user
LastUserPosition(messages) ==
    CHOOSE i \in 1..Len(messages) :
        /\ messages[i].role = ROLE_USER
        /\ \A j \in (i + 1)..Len(messages) : messages[j].role # ROLE_USER

\* C39: the query of the search call is the content of the last user-role
\* message of the validated request, whatever system or assistant messages
\* follow it; it is fixed when the RequestContext is created: one search call
\* is made with it, and the userMessage of the context keeps that value
\* through every later step of the pipeline.
C39_QueryIsLastUserMessage ==
    /\ searchCalls # << >> => ContextCreated
    /\ ContextCreated =>
          /\ \E i \in 1..Len(ValidatedMessages) : ValidatedMessages[i].role = ROLE_USER
          /\ context.userMessage =
                ValidatedMessages[LastUserPosition(ValidatedMessages)].content.val
          /\ Len(searchCalls) = 1
          /\ searchCalls[1].query = context.userMessage

\* the pipeline has run to its end for a request whose last user message is
\* followed by an assistant or a system message
C39_Witness ==
    /\ pc = "done" /\ ContextCreated
    /\ Len(ValidatedMessages) = 2
    /\ ValidatedMessages[1] = Message(ROLE_USER, JStr(Lit("B", CONTENT_MAX)))
    /\ ValidatedMessages[2].role \in { ROLE_ASSISTANT, ROLE_SYSTEM }
    /\ searchCalls[1].query = Lit("B", CONTENT_MAX)
    /\ Len(llmCalls) >= 1

\* the ragSettings fields the client sent with the request (none when the
\* body has no ragSettings object)
ClientSettings ==
    IF request.body.ragSettings.typeof = "object"
    THEN request.body.ragSettings.fields ELSE [x \in {} |-> 0]

\* the client's value of a setting when the client supplied one, else the
\* server's default
ClientOrDefault(k) ==
    IF k \in DOMAIN ClientSettings THEN ClientSettings[k] ELSE DEFAULT_RAG_SETTINGS[k]

\* C40: the index of the search call is the server-configured index whatever
\* ragSettings the client sends, an index field included, while maxResults,
\* scoreThreshold and rewriteQuery take the client's value when supplied and
\* the server default otherwise.
C40_IndexIsServerConfigured ==
    ContextCreated =>
        /\ context.ragSettings.index = "damagescan-rag-1"
        /\ \A c \in 1..Len(searchCalls) :
              /\ searchCalls[c].index = "damagescan-rag-1"
              /\ searchCalls[c].max_num_results = ClientOrDefault("maxResults")
              /\ searchCalls[c].score_threshold = ClientOrDefault("scoreThreshold")
              /\ searchCalls[c].rewrite_query = ClientOrDefault("rewriteQuery")

\* the client asked for an index of its own, 3 results, a threshold of 0.5
\* and no rewriting: the search call went to the configured index with the
\* client's three settings
C40_Witness ==
    /\ ContextCreated /\ Len(searchCalls) = 1
    /\ "index" \in DOMAIN ClientSettings /\ ClientSettings.index = "client-index"
    /\ searchCalls[1].index = DEFAULT_INDEX
    /\ searchCalls[1].max_num_results = 3
    /\ searchCalls[1].score_threshold = 50
    /\ searchCalls[1].rewrite_query = FALSE

====
